---- MODULE Spec2Model ----
(***************************************************************************)
(* A model of datahandling.py: the nearest-value locator, the collision    *)
(* counter, the validation of an IIR filter specification, and the fitting *)
(* methods of DataObject (get_fit, get_fit_from_peak, get_fit_auto).       *)
(*                                                                         *)
(* Numbers: the program works on floats.  The model works on integers and  *)
(* draws its inputs so that every division the code makes is exact; where  *)
(* the code halves a quantity that may be odd, the comparison is made on   *)
(* the doubled quantities, which is the same comparison.  inf and nan are  *)
(* kept as separate kinds of number (Num) with float comparison rules.     *)
(***************************************************************************)
EXTENDS Integers, Sequences, FiniteSets, TLC

VARIABLES
    input,    \* arguments of a pure function, drawn when the run starts
    output,   \* what the function returned or raised; NoOutput before the call
    PSD,      \* DataObject.PSD, one power value per frequency bin
    A,        \* DataObject.A, set by get_fit (Unset before the first fit)
    Ftrap,    \* DataObject.Ftrap
    Gamma,    \* DataObject.Gamma
    call,     \* the method call in progress on the DataObject: arguments,
              \* result, exception and what it did; NoCall between calls
    mem       \* the arrays of the process and the arrays the DataObject
              \* refers to (time, voltage, freqs, PSD); NoMem where the
              \* arrays are given by value

vars == <<input, output, PSD, A, Ftrap, Gamma, call, mem>>

---------------------------------------------------------------------------
(* Bounds of the model *)

MaxLen == 3        \* longest list given to take_closest
MaxVal == 4        \* largest list element given to take_closest
MaxRuns == 4       \* most runs in a collision-flag sequence
MaxRunLen == 2     \* longest run in a collision-flag sequence
MaxFilt == 3       \* largest frequency of the small filter specifications

---------------------------------------------------------------------------
(* Python values *)

NoOutput == [exc |-> "pending"]
Raise(e) == [exc |-> e]
Return(v) == [exc |-> "none", val |-> v]

Max(a, b) == IF a >= b THEN a ELSE b
Min(a, b) == IF a <= b THEN a ELSE b

\* myList[lo:hi] of Python for 0 <= lo, hi; positions are 0-based, the
\* sequence is 1-based.  An empty slice when hi <= lo.
Slice(s, lo, hi) ==
    LET h == Min(hi, Len(s))
    IN  IF h <= lo THEN <<>> ELSE [k \in 1..(h - lo) |-> s[lo + k]]

---------------------------------------------------------------------------
(* take_closest *)

\* bisect.bisect_left(a, x): binary search, written as CPython runs it; on a
\* list that is not sorted it still terminates and returns a position.
RECURSIVE bisect_loop(_, _, _, _)
bisect_loop(a, x, lo, hi) ==
    IF lo < hi
    THEN LET mid == (lo + hi) \div 2
         IN  IF a[mid + 1] < x
             THEN bisect_loop(a, x, mid + 1, hi)
             ELSE bisect_loop(a, x, lo, mid)
    ELSE lo

bisect_left(a, x) == bisect_loop(a, x, 0, Len(a))

take_closest_ties_up(myList, myNumber) ==
    LET pos == bisect_left(myList, myNumber)
    IN  IF pos = 0 THEN myList[1]
        ELSE IF pos = Len(myList) THEN myList[Len(myList)]
        ELSE LET before == myList[pos]
                 after == myList[pos + 1]
             IN  IF after - myNumber <= myNumber - before THEN after ELSE before

\* take_closest(myList, myNumber) for a non-empty myList.  On an empty list
\* the code evaluates myList[0] and raises IndexError: see take_closest_call.
take_closest(myList, myNumber) ==
    LET pos == bisect_left(myList, myNumber)
    IN  IF pos = 0 THEN myList[1]
        ELSE IF pos = Len(myList) THEN myList[Len(myList)]
        ELSE LET before == myList[pos]
                 after == myList[pos + 1]
             IN  IF after - myNumber < myNumber - before THEN after ELSE before

take_closest_call(myList, myNumber) ==
    IF Len(myList) = 0 THEN Raise("IndexError")
    ELSE Return(take_closest(myList, myNumber))

IsSorted(s) == \A i \in 1..(Len(s) - 1) : s[i] <= s[i + 1]

SortedLists ==
    UNION {{s \in [1..n -> 0..MaxVal] : IsSorted(s)} : n \in 0..MaxLen}

LocatorInputs ==
    [fn : {"take_closest"}, myList : SortedLists, myNumber : (0 - 1)..(MaxVal + 1)]

---------------------------------------------------------------------------
(* count_collisions *)

\* The loop of count_collisions from position i (0-based) on, with the
\* values CollisionCount, CollisionIndicies and lastval it has at that point.
RECURSIVE collisions_loop(_, _, _, _, _)
collisions_loop(Collisions, i, CollisionCount, CollisionIndicies, lastval) ==
    IF i >= Len(Collisions)
    THEN [CollisionCount |-> CollisionCount, CollisionIndicies |-> CollisionIndicies]
    ELSE LET val == Collisions[i + 1]
         IN  IF val = TRUE /\ lastval = FALSE
             THEN collisions_loop(Collisions, i + 1, CollisionCount + 1,
                                  Append(CollisionIndicies, i), val)
             ELSE collisions_loop(Collisions, i + 1, CollisionCount,
                                  CollisionIndicies, val)

count_collisions_lastval_false(Collisions) ==
    collisions_loop(Collisions, 0, 0, <<>>, FALSE)

count_collisions_every_true(Collisions) ==
    LET hits == {i \in 0..(Len(Collisions) - 1) : Collisions[i + 1]}
        RECURSIVE Ascending(_)
        Ascending(S) ==
            IF S = {} THEN <<>>
            ELSE LET m == CHOOSE x \in S : \A y \in S : x <= y
                 IN  <<m>> \o Ascending(S \ {m})
    IN  [CollisionCount |-> Cardinality(hits), CollisionIndicies |-> Ascending(hits)]

count_collisions(Collisions) ==
    collisions_loop(Collisions, 0, 0, <<>>, TRUE)

\* A flag sequence given by its runs: the value of the first run and the
\* lengths of the runs, which alternate in value.
RECURSIVE ExpandRuns(_, _)
ExpandRuns(first, lens) ==
    IF lens = <<>> THEN <<>>
    ELSE [k \in 1..lens[1] |-> first] \o ExpandRuns(~first, Tail(lens))

RunLengths == UNION {[1..n -> 1..MaxRunLen] : n \in 0..MaxRuns}

CollisionInputs ==
    {[fn |-> "count_collisions", first |-> f, lens |-> l,
      Collisions |-> ExpandRuns(f, l)] : f \in BOOLEAN, l \in RunLengths}

---------------------------------------------------------------------------
(* IIR_filter_design *)

\* The edges are handed to scipy.signal.iirdesign as fractions of the Nyquist
\* frequency; a fraction x / NyquistFreq is kept as the pair <<2x, SampleFreq>>.
iirdesign_args(CentralFreq, bandwidth, transitionWidth, SampleFreq) ==
    [bandpass |-> <<2 * CentralFreq - bandwidth, 2 * CentralFreq + bandwidth>>,
     bandstop |-> <<2 * CentralFreq - bandwidth - 2 * transitionWidth,
                    2 * CentralFreq + bandwidth + 2 * transitionWidth>>,
     over |-> SampleFreq]

IIR_filter_design_no_transition(CentralFreq, bandwidth, transitionWidth, SampleFreq) ==
    IF 2 * CentralFreq + bandwidth > SampleFreq
    THEN Raise("ValueError")
    ELSE Return(iirdesign_args(CentralFreq, bandwidth, transitionWidth, SampleFreq))

IIR_filter_design_ge(CentralFreq, bandwidth, transitionWidth, SampleFreq) ==
    IF 2 * CentralFreq + bandwidth + 2 * transitionWidth >= SampleFreq
    THEN Raise("ValueError")
    ELSE Return(iirdesign_args(CentralFreq, bandwidth, transitionWidth, SampleFreq))

\* CentralFreq + bandwidth / 2 + transitionWidth > SampleFreq / 2, compared
\* on the doubled quantities.
IIR_filter_design(CentralFreq, bandwidth, transitionWidth, SampleFreq) ==
    IF 2 * CentralFreq + bandwidth + 2 * transitionWidth > SampleFreq
    THEN Raise("ValueError")
    ELSE Return(iirdesign_args(CentralFreq, bandwidth, transitionWidth, SampleFreq))

FilterSpec(c, b, t, s) ==
    [fn |-> "IIR_filter_design", CentralFreq |-> c, bandwidth |-> b,
     transitionWidth |-> t, SampleFreq |-> s]

\* Nyquist 1,000,000 Hz, centre 999,000 Hz, passband 2,000 Hz
BoundaryCase(t) == FilterSpec(999000, 2000, t, 2000000)

FilterInputs ==
    {FilterSpec(c, b, t, s) : c \in 0..MaxFilt, b \in 0..MaxFilt,
                              t \in 0..MaxFilt, s \in 1..(2 * MaxFilt)}
    \cup {BoundaryCase(t) : t \in {2000, 500, 0}}

---------------------------------------------------------------------------
(* The pure functions: the inputs are drawn at the start, a call applies one *)

NoData == <<>>
Unset == [k |-> "unset"]
NoCall == [op |-> "none"]
NoMem == [next |-> 0]

ObjectUntouched ==
    /\ PSD = NoData /\ A = Unset /\ Ftrap = Unset /\ Gamma = Unset
    /\ call = NoCall
    /\ mem = NoMem

InitPure(inputs) ==
    /\ input \in inputs
    /\ output = NoOutput
    /\ ObjectUntouched

Apply(result) ==
    /\ output = NoOutput
    /\ output' = result
    /\ UNCHANGED <<input, PSD, A, Ftrap, Gamma, call, mem>>

TakeClosest ==
    /\ input.fn = "take_closest"
    /\ Apply(take_closest_call(input.myList, input.myNumber))

CountCollisions ==
    /\ input.fn = "count_collisions"
    /\ Apply(Return(count_collisions(input.Collisions)))

IIRFilterDesign ==
    /\ input.fn = "IIR_filter_design"
    /\ Apply(IIR_filter_design(input.CentralFreq, input.bandwidth,
                               input.transitionWidth, input.SampleFreq))

SpecLocator == InitPure(LocatorInputs) /\ [][TakeClosest]_vars
SpecCollisions == InitPure(CollisionInputs) /\ [][CountCollisions]_vars
SpecFilter == InitPure(FilterInputs) /\ [][IIRFilterDesign]_vars

---------------------------------------------------------------------------
(* Floats and value+uncertainty pairs *)

Fin(n) == [k |-> "fin", v |-> n]
Inf == [k |-> "inf", v |-> 0]
NaN == [k |-> "nan", v |-> 0]

\* uncertainties.ufloat(nominal value, standard deviation)
ufloat(n, s) == [n |-> n, std_dev |-> s]

\* val = ufloat(NaN, NaN), the result of a fit that was not made
NaNval == ufloat(NaN, NaN)

---------------------------------------------------------------------------
(* The power spectrum of a DataObject *)

NumBins == 5       \* frequency bins of the spectrum
BinHz == 8         \* spacing of the bins
MaxPSD == 2        \* largest power value

\* self.freqs after get_PSD: welch's bins 0, df, 2 df, ..., sorted ascending
freqs == [i \in 1..NumBins |-> (i - 1) * BinHz]

PSDs == [1..NumBins -> 1..MaxPSD]

\* list(s).index(v): the first position (0-based) that holds v
IndexOf(s, v) == (CHOOSE i \in 1..Len(s) : s[i] = v /\ \A j \in 1..(i - 1) : s[j] # v) - 1

RECURSIVE SeqMax(_)
SeqMax(s) == IF Len(s) = 1 THEN s[1] ELSE Max(s[1], SeqMax(Tail(s)))

RECURSIVE SeqMin(_)
SeqMin(s) == IF Len(s) = 1 THEN s[1] ELSE Min(s[1], SeqMin(Tail(s)))

Doubled(s) == [i \in 1..Len(s) |-> 2 * s[i]]

---------------------------------------------------------------------------
(* fit_PSD and fit_curvefit *)

NumParams == 3     \* p0 = [AGuess, ftrap, GammaGuess]
MaxParam == 2      \* largest fitted trap frequency the optimizer returns

\* What scipy's curve_fit can return through fit_curvefit when it converges:
\* the fitted (A, TrapFreq, Gamma) and the square roots of the diagonal of
\* pcov, here 1 for each parameter, or inf, with which curve_fit fills pcov
\* when it cannot estimate it.
CurveFitReturns ==
    {[pfit |-> <<1, f, 1>>, perr |-> <<Fin(1), Fin(1), Fin(1)>>] : f \in 1..MaxParam}
    \cup {[pfit |-> <<1, 1, 1>>, perr |-> <<Inf, Inf, Inf>>]}

\* What curve_fit does with M data points for the NumParams parameters.  With
\* fewer points than parameters leastsq raises TypeError ("Improper input");
\* with no point at all, TypeError or, in the scipy versions that check for
\* empty data first, ValueError; else it converges or raises RuntimeError
\* ("Optimal parameters not found").
curve_fit_outcomes(M) ==
    IF M = 0 THEN {Raise("TypeError"), Raise("ValueError")}
    ELSE IF M < NumParams THEN {Raise("TypeError")}
    ELSE {Raise("RuntimeError")} \cup {Return(r) : r \in CurveFitReturns}

\* list(freqs).index(take_closest(freqs, f)): the bin nearest to f
closest_index(f) == IndexOf(freqs, take_closest(freqs, f))

\* lines 912-915: the bins [lo, hi) around ftrap that are handed to the
\* optimizer, and p0
fit_PSD_data(bandwidth, AGuess, GammaGuess, ftrap) ==
    [kind |-> "curve_fit",
     indx_fit_lower |-> closest_index(ftrap - bandwidth \div 2),
     indx_fit_upper |-> closest_index(ftrap + bandwidth \div 2),
     p0 |-> [AGuess |-> AGuess, ftrap |-> ftrap, GammaGuess |-> GammaGuess]]

\* lines 886-893: index_ftrap = np.where(PSD == max(window)), over the whole
\* spectrum.  A maximum that several bins hold makes ftrap an array of
\* several values, whose comparison in bisect_left has no truth value.
fit_PSD_recentre(psd, bandwidth, AGuess, GammaGuess, index_ftrap) ==
    IF Cardinality(index_ftrap) > 1
    THEN [kind |-> "ValueError", why |-> "several maxima"]
    ELSE fit_PSD_data(bandwidth, AGuess, GammaGuess,
                      freqs[(CHOOSE i \in index_ftrap : TRUE) + 1])

bins_holding(psd, power) == {i \in 0..(Len(psd) - 1) : psd[i + 1] = power}

\* line 886: max() of the window around the guess; of an empty window it
\* raises ValueError
fit_PSD_peak(psd, bandwidth, AGuess, GammaGuess, window0) ==
    IF window0 = <<>>
    THEN [kind |-> "ValueError", why |-> "empty window"]
    ELSE fit_PSD_recentre(psd, bandwidth, AGuess, GammaGuess,
                          bins_holding(psd, SeqMax(window0)))

\* the window of bandwidth around the bin ftrap_guess (lines 876-884)
guess_window(psd, bandwidth, ftrap_guess) ==
    Slice(psd, closest_index(ftrap_guess - bandwidth \div 2),
               closest_index(ftrap_guess + bandwidth \div 2))

\* fit_PSD without lines 886-896: the fit is made around the bin nearest to
\* the guess
fit_PSD_window_at_guess(psd, bandwidth, TrapFreqGuess, AGuess, GammaGuess) ==
    fit_PSD_data(bandwidth, AGuess, GammaGuess, take_closest(freqs, TrapFreqGuess))

\* fit_PSD up to the call of fit_curvefit, with NMovAve = 1.  The angular
\* frequencies are the frequencies times 2 pi, on both sides of every
\* comparison, so the bins found are those found on the frequencies.
\*   kind "ValueError": no fit is made, for the reason why;
\*   kind "curve_fit": the bins [lo, hi) handed to the optimizer and p0.
fit_PSD_window(psd, bandwidth, TrapFreqGuess, AGuess, GammaGuess) ==
    fit_PSD_peak(psd, bandwidth, AGuess, GammaGuess,
                 guess_window(psd, bandwidth, take_closest(freqs, TrapFreqGuess)))

\* the number of points in datax = freqs_smoothed[indx_fit_lower:indx_fit_upper]
NumPoints(w) == Max(w.indx_fit_upper - w.indx_fit_lower, 0)

\* The outcomes the optimizer can give for the data and p0 of w.  It is a
\* function of its arguments: within one method call the same data and p0
\* give the outcome they gave before, which memo holds.
outcomes_for(w, memo) ==
    IF w \in DOMAIN memo THEN {memo[w]} ELSE curve_fit_outcomes(NumPoints(w))

remember(memo, w, outcome) ==
    [x \in DOMAIN memo \cup {w} |-> IF x = w THEN outcome ELSE memo[x]]

NoMemo == [x \in {} |-> x]

---------------------------------------------------------------------------
(* DataObject.get_fit *)

Attrs(a, f, g) == [A |-> a, Ftrap |-> f, Gamma |-> g]

\* the defaults A_Initial = 0.1e10, in units of 1e9, and Gamma_Initial = 400.
\* The damping guess is carried as four times its value, since
\* approx_Gamma = FWHM / 4 need not be an integer.
DefaultAInitial == 1
DefaultGammaInitial == 400

\* get_fit once fit_PSD has found the window w (lines 296-309): one run for
\* each outcome of the optimizer.  Only a converged fit sets the attributes.
fit_runs_in(attrs, w, memo) ==
    IF w.kind = "ValueError"
    THEN {[exc |-> "ValueError", attrs |-> attrs, optimizer |-> w.why, memo |-> memo]}
    ELSE {IF o.exc # "none"
          THEN [exc |-> o.exc, attrs |-> attrs, optimizer |-> o.exc,
                memo |-> remember(memo, w, o)]
          ELSE [exc |-> "none",
                attrs |-> Attrs(ufloat(Fin(o.val.pfit[1]), o.val.perr[1]),
                                ufloat(Fin(o.val.pfit[2]), o.val.perr[2]),
                                ufloat(Fin(o.val.pfit[3]), o.val.perr[3])),
                optimizer |-> "converged",
                memo |-> remember(memo, w, o)]
          : o \in outcomes_for(w, memo)}

\* The runs of self.get_fit(TrapFreq, WidthOfPeakToFit, A_Initial, Gamma_Initial)
\* on an object with the attributes attrs.  A run is the exception raised
\* ("none" if none), the attributes the object has afterwards, and what the
\* optimizer did.
get_fit_runs(psd, attrs, TrapFreq, WidthOfPeakToFit, A_Initial, Gamma_Initial, memo) ==
    fit_runs_in(attrs,
                fit_PSD_window(psd, WidthOfPeakToFit, TrapFreq, A_Initial, Gamma_Initial),
                memo)

---------------------------------------------------------------------------
(* DataObject.get_fit_from_peak *)

range_too_small_never(lowerIndex, upperIndex) == FALSE

\* if lowerIndex == upperIndex (line 352)
range_too_small(lowerIndex, upperIndex) == lowerIndex = upperIndex

caught_with_RuntimeError(exc) == exc \in {"TypeError", "RuntimeError"}

\* except TypeError (line 393)
caught(exc) == exc = "TypeError"

NaNResult == [Ftrap |-> NaNval, A |-> NaNval, Gamma |-> NaNval]
NoResult == [Ftrap |-> Unset, A |-> Unset, Gamma |-> Unset]

\* lines 370-371 and 379-380: list(self.PSD).index(take_closest(side, HalfMax))
\* for the side self.PSD[lowerIndex:centralIndex] left of the peak and the
\* side self.PSD[centralIndex:upperIndex] from the peak on: the first bin of
\* the whole spectrum that holds the power take_closest picked
LeftSideOfPeakIndex(psd, lowerIndex, centralIndex, HalfMax2) == IndexOf(psd, take_closest(Doubled(Slice(psd, lowerIndex, centralIndex)), HalfMax2) \div 2)
RightSideOfPeakIndex(psd, centralIndex, upperIndex, HalfMax2) == IndexOf(psd, take_closest(Doubled(Slice(psd, centralIndex, upperIndex)), HalfMax2) \div 2)

\* lines 366-391: the sides of the peak at half maximum and the arguments
\* of get_fit.  take_closest of an empty side raises IndexError, which is
\* caught: a warning and the NaN result.  HalfMax may be half an integer:
\* the search for the power nearest to it is made on the doubled powers and
\* the doubled HalfMax.
peak_sides(psd, lowerLimit, upperLimit, lowerIndex, upperIndex, MaxPSDval, centralIndex, HalfMax2) ==
    IF Slice(psd, lowerIndex, centralIndex) = <<>>
           \/ Slice(psd, centralIndex, upperIndex) = <<>>
    THEN [kind |-> "NaN", lowerIndex |-> lowerIndex, upperIndex |-> upperIndex,
          centralIndex |-> centralIndex]
    ELSE [kind |-> "get_fit",
          lowerIndex |-> lowerIndex, upperIndex |-> upperIndex,
          centralIndex |-> centralIndex,
          CentralFreq |-> freqs[centralIndex + 1],
          WidthOfPeakToFit |-> (upperLimit - lowerLimit) \div 2,
          approx_A |-> MaxPSDval * 10000000,
          approx_Gamma4 |->
              freqs[RightSideOfPeakIndex(psd, centralIndex, upperIndex, HalfMax2) + 1]
              - freqs[LeftSideOfPeakIndex(psd, lowerIndex, centralIndex, HalfMax2) + 1]]

\* lines 357-365: the highest power of the window, the first bin of the
\* whole spectrum that holds it, and HalfMax = Min + (Max - Min) / 2
peak_of(psd, lowerLimit, upperLimit, lowerIndex, upperIndex, MaxPSDval, MinPSDval) ==
    peak_sides(psd, lowerLimit, upperLimit, lowerIndex, upperIndex,
               MaxPSDval, IndexOf(psd, MaxPSDval),
               2 * MinPSDval + (MaxPSDval - MinPSDval))

\* lines 352-357: the window between the two bins
peak_window(psd, lowerLimit, upperLimit, lowerIndex, upperIndex) ==
    IF range_too_small(lowerIndex, upperIndex)
    THEN [kind |-> "NaN", lowerIndex |-> lowerIndex, upperIndex |-> upperIndex]
    ELSE IF Slice(psd, lowerIndex, upperIndex) = <<>>
    THEN [kind |-> "ValueError", lowerIndex |-> lowerIndex, upperIndex |-> upperIndex]
    ELSE peak_of(psd, lowerLimit, upperLimit, lowerIndex, upperIndex,
                 SeqMax(Slice(psd, lowerIndex, upperIndex)),
                 SeqMin(Slice(psd, lowerIndex, upperIndex)))

\* get_fit_from_peak up to the call of get_fit:
\*   kind "NaN": a warning and the NaN result (lines 352-355, 373-376, 382-385);
\*   kind "ValueError": max() of an empty window (line 357);
\*   kind "get_fit": the arguments of the get_fit call at line 391.
peak_guess(psd, lowerLimit, upperLimit) ==
    peak_window(psd, lowerLimit, upperLimit,
                closest_index(lowerLimit), closest_index(upperLimit))

\* get_fit_from_peak with the NaN result of a window that is not valid
\* stored in the attributes as well
peak_runs_from_storing_NaN(psd, attrs, g, memo) ==
    IF g.kind = "NaN"
    THEN {[exc |-> "none", ret |-> NaNResult, attrs |-> Attrs(NaNval, NaNval, NaNval),
           warned |-> TRUE, get_fit |-> FALSE, optimizer |-> "not called", memo |-> memo]}
    ELSE IF g.kind = "ValueError"
    THEN {[exc |-> "ValueError", ret |-> NoResult, attrs |-> attrs, warned |-> FALSE,
           get_fit |-> FALSE, optimizer |-> "not called", memo |-> memo]}
    ELSE {[exc |-> IF r.exc = "none" \/ caught(r.exc) THEN "none" ELSE r.exc,
           ret |-> IF r.exc = "none" THEN [Ftrap |-> r.attrs.Ftrap, A |-> r.attrs.A, Gamma |-> r.attrs.Gamma]
                   ELSE IF caught(r.exc) THEN NaNResult ELSE NoResult,
           attrs |-> r.attrs, warned |-> caught(r.exc), get_fit |-> TRUE,
           optimizer |-> r.optimizer, memo |-> r.memo]
          : r \in get_fit_runs(psd, attrs, g.CentralFreq, g.WidthOfPeakToFit,
                               g.approx_A, g.approx_Gamma4, memo)}

\* get_fit_from_peak from the guess g on (lines 389-405)
peak_runs_from(psd, attrs, g, memo) ==
    IF g.kind = "NaN"
    THEN {[exc |-> "none", ret |-> NaNResult, attrs |-> attrs, warned |-> TRUE,
           get_fit |-> FALSE, optimizer |-> "not called", memo |-> memo]}
    ELSE IF g.kind = "ValueError"
    THEN {[exc |-> "ValueError", ret |-> NoResult, attrs |-> attrs, warned |-> FALSE,
           get_fit |-> FALSE, optimizer |-> "not called", memo |-> memo]}
    ELSE {IF r.exc = "none"
          THEN [exc |-> "none",
                ret |-> [Ftrap |-> r.attrs.Ftrap, A |-> r.attrs.A,
                         Gamma |-> r.attrs.Gamma],
                attrs |-> r.attrs, warned |-> FALSE, get_fit |-> TRUE,
                optimizer |-> r.optimizer, memo |-> r.memo]
          ELSE IF caught(r.exc)
          THEN [exc |-> "none", ret |-> NaNResult, attrs |-> r.attrs, warned |-> TRUE,
                get_fit |-> TRUE, optimizer |-> r.optimizer, memo |-> r.memo]
          ELSE [exc |-> r.exc, ret |-> NoResult, attrs |-> r.attrs, warned |-> FALSE,
                get_fit |-> TRUE, optimizer |-> r.optimizer, memo |-> r.memo]
          : r \in get_fit_runs(psd, attrs, g.CentralFreq, g.WidthOfPeakToFit,
                               g.approx_A, g.approx_Gamma4, memo)}

\* The runs of self.get_fit_from_peak(lowerLimit, upperLimit): the exception
\* raised, the result returned (FTrap, A, Gamma), the attributes afterwards,
\* whether a warning was given and whether get_fit was called.
get_fit_from_peak_runs(psd, attrs, lowerLimit, upperLimit, memo) ==
    peak_runs_from(psd, attrs, peak_guess(psd, lowerLimit, upperLimit), memo)

---------------------------------------------------------------------------
(* DataObject.get_fit_auto *)

\* A sum of squared relative errors: a fraction num / den, inf or nan
Score(num, den) == [k |-> "fin", num |-> num, den |-> den]
InfScore == [k |-> "inf", num |-> 0, den |-> 1]
NaNScore == [k |-> "nan", num |-> 0, den |-> 1]

\* (u.std_dev / u.n)**2 for a nominal value that is nan or a positive number
RelSq(u) ==
    IF u.n.k = "nan" \/ u.std_dev.k = "nan" THEN NaNScore
    ELSE IF u.std_dev.k = "inf" THEN InfScore
    ELSE Score(u.std_dev.v * u.std_dev.v, u.n.v * u.n.v)

AddScore(x, y) ==
    IF x.k = "nan" \/ y.k = "nan" THEN NaNScore
    ELSE IF x.k = "inf" \/ y.k = "inf" THEN InfScore
    ELSE Score(x.num * y.den + y.num * x.den, x.den * y.den)

\* (A.std_dev / A.n)**2 + (Gamma.std_dev / Gamma.n)**2 + (Ftrap.std_dev / Ftrap.n)**2
TotalSumSquaredError(a, g, f) == AddScore(AddScore(RelSq(a), RelSq(g)), RelSq(f))

\* x <= y on floats
Less_or_equal(x, y) ==
    /\ x.k # "nan"
    /\ y.k # "nan"
    /\ \/ y.k = "inf"
       \/ x.k = "fin" /\ y.k = "fin" /\ x.num * y.den <= y.num * x.den

Less_nan_is_smaller(x, y) ==
    \/ x.k = "nan"
    \/ x.k = "fin" /\ y.k = "inf"
    \/ x.k = "fin" /\ y.k = "fin" /\ x.num * y.den < y.num * x.den

\* x < y on floats: False when either is nan
Less(x, y) ==
    /\ x.k # "nan"
    /\ y.k # "nan"
    /\ \/ x.k = "fin" /\ y.k = "inf"
       \/ x.k = "fin" /\ y.k = "fin" /\ x.num * y.den < y.num * x.den

\* numpy.arange(start, stop, -step) for step > 0: start, start - step, ...
\* as long as the value is above stop
RECURSIVE arange_down(_, _, _)
arange_down(start, stop, step) ==
    IF start > stop THEN <<start>> \o arange_down(start - step, stop, step) ELSE <<>>

\* One pass of the loop body (lines 436-451) for Width, where r is the run of
\* get_fit_from_peak.  st holds the locals MinTotalSumSquaredError and
\* BestWidth (bound or not), the attributes of the object, the exception
\* that left the loop, and the candidates tried so far.
auto_step(st, Width, r) ==
    IF r.exc \notin {"none", "RuntimeError"}
    THEN [st EXCEPT !.exc = r.exc, !.attrs = r.attrs, !.memo = r.memo,
                    !.tried = Append(@, [Width |-> Width, exc |-> r.exc,
                                         ret |-> NoResult, score |-> NaNScore,
                                         optimizer |-> r.optimizer])]
    ELSE LET res == IF r.exc = "RuntimeError" THEN NaNResult ELSE r.ret
             score == TotalSumSquaredError(res.A, res.Gamma, res.Ftrap)
             better == Less(score, st.MinTotalSumSquaredError)
         IN  [st EXCEPT !.MinTotalSumSquaredError = IF better THEN score ELSE @,
                        !.BestWidth = IF better THEN Width ELSE @,
                        !.bound = @ \/ better,
                        !.attrs = r.attrs,
                        !.memo = r.memo,
                        !.tried = Append(@, [Width |-> Width, exc |-> r.exc,
                                             ret |-> res, score |-> score,
                                             optimizer |-> r.optimizer])]

\* The loop from the i-th candidate on: the states it can end in.
RECURSIVE auto_loop(_, _, _, _, _)
auto_loop(psd, CentralFreq, ladder, i, st) ==
    IF i > Len(ladder) \/ st.exc # "none" THEN {st}
    ELSE UNION {auto_loop(psd, CentralFreq, ladder, i + 1, auto_step(st, ladder[i], r)) :
                   r \in get_fit_from_peak_runs(psd, st.attrs,
                                                CentralFreq - ladder[i] \div 2,
                                                CentralFreq + ladder[i] \div 2,
                                                st.memo)}

AutoResult(st, exc, attrs) ==
    [exc |-> exc,
     ret |-> IF exc = "none"
             THEN [Ftrap |-> attrs.Ftrap, A |-> attrs.A, Gamma |-> attrs.Gamma]
             ELSE NoResult,
     attrs |-> attrs, tried |-> st.tried, bound |-> st.bound,
     BestWidth |-> st.BestWidth]

auto_finish_no_rerun(psd, CentralFreq, st) ==
    IF st.exc # "none" THEN {AutoResult(st, st.exc, st.attrs)}
    ELSE IF ~st.bound THEN {AutoResult(st, "UnboundLocalError", st.attrs)}
    ELSE {AutoResult(st, "none", st.attrs)}

\* After the loop (lines 452-458): the fit is made again at BestWidth and the
\* attributes of the object are returned.  BestWidth is a local that only a
\* candidate with a score below inf binds: read unbound it raises
\* UnboundLocalError.
auto_finish(psd, CentralFreq, st) ==
    IF st.exc # "none" THEN {AutoResult(st, st.exc, st.attrs)}
    ELSE IF ~st.bound THEN {AutoResult(st, "UnboundLocalError", st.attrs)}
    ELSE {IF r.exc # "none" THEN AutoResult(st, r.exc, r.attrs)
          ELSE IF r.attrs.A = Unset THEN AutoResult(st, "AttributeError", r.attrs)
          ELSE AutoResult(st, "none", r.attrs)
          : r \in get_fit_from_peak_runs(psd, st.attrs,
                                         CentralFreq - st.BestWidth \div 2,
                                         CentralFreq + st.BestWidth \div 2,
                                         st.memo)}

\* the candidate widths with MinWidth itself as the end of the range
ladder_of_above_MinWidth(MaxWidth, MinWidth, WidthIntervals) ==
    arange_down(MaxWidth, MinWidth, WidthIntervals)

\* the candidate widths, in the order the loop takes them (line 435)
ladder_of(MaxWidth, MinWidth, WidthIntervals) ==
    arange_down(MaxWidth, MinWidth - WidthIntervals, WidthIntervals)

\* The runs of self.get_fit_auto(CentralFreq, MaxWidth, MinWidth, WidthIntervals)
get_fit_auto_runs(psd, attrs, CentralFreq, MaxWidth, MinWidth, WidthIntervals) ==
    LET start == [MinTotalSumSquaredError |-> InfScore, BestWidth |-> 0,
                  bound |-> FALSE, attrs |-> attrs, memo |-> NoMemo,
                  exc |-> "none", tried |-> <<>>]
    IN  UNION {auto_finish(psd, CentralFreq, st) :
                  st \in auto_loop(psd, CentralFreq,
                                   ladder_of(MaxWidth, MinWidth, WidthIntervals),
                                   1, start)}

---------------------------------------------------------------------------
(* The DataObject: a spectrum, and method calls one after the other *)

\* the widths of a peak or of a search window: multiples of 4, so that the
\* code's Width / 2 and bandwidth / 2 are exact; the narrow ones, around the
\* bin width, and every fourth of the wide ones
MaxWidth4 == 16
Widths == {4 * k : k \in {j \in 1..MaxWidth4 : j <= 3 \/ j % 4 = 0}}

TheAttrs == Attrs(A, Ftrap, Gamma)

SetAttrs(attrs) ==
    /\ A' = attrs.A
    /\ Ftrap' = attrs.Ftrap
    /\ Gamma' = attrs.Gamma

InitFit ==
    /\ input = [fn |-> "none"]
    /\ output = NoOutput
    /\ PSD \in PSDs
    /\ A = Unset /\ Ftrap = Unset /\ Gamma = Unset
    /\ call = NoCall
    /\ mem = NoMem

\* self.get_fit(TrapFreq, WidthOfPeakToFit, MakeFig=False) with the default
\* initial values
GetFit ==
    /\ call = NoCall
    /\ \E TrapFreq \in {freqs[i] : i \in 1..NumBins}, WidthOfPeakToFit \in Widths :
         \E r \in get_fit_runs(PSD, TheAttrs, TrapFreq, WidthOfPeakToFit,
                               DefaultAInitial, 4 * DefaultGammaInitial, NoMemo) :
            /\ SetAttrs(r.attrs)
            /\ call' = [op |-> "get_fit", TrapFreq |-> TrapFreq,
                        WidthOfPeakToFit |-> WidthOfPeakToFit,
                        exc |-> r.exc,
                        ret |-> IF r.exc = "none"
                                THEN [Ftrap |-> r.attrs.Ftrap, A |-> r.attrs.A,
                                      Gamma |-> r.attrs.Gamma]
                                ELSE NoResult,
                        warned |-> FALSE,
                        get_fit |-> TRUE,
                        optimizer |-> r.optimizer,
                        before |-> TheAttrs]
    /\ UNCHANGED <<input, output, PSD, mem>>

\* self.get_fit_from_peak(lowerLimit, upperLimit, ShowFig=False)
GetFitFromPeak ==
    /\ call = NoCall
    /\ \E CentralFreq \in {freqs[i] : i \in 1..NumBins}, Width \in Widths :
         LET lowerLimit == CentralFreq - Width \div 2
             upperLimit == CentralFreq + Width \div 2
         IN  \E r \in get_fit_from_peak_runs(PSD, TheAttrs, lowerLimit, upperLimit, NoMemo) :
                /\ SetAttrs(r.attrs)
                /\ call' = [op |-> "get_fit_from_peak", lowerLimit |-> lowerLimit,
                            upperLimit |-> upperLimit,
                            exc |-> r.exc, ret |-> r.ret, warned |-> r.warned,
                            get_fit |-> r.get_fit, optimizer |-> r.optimizer,
                            before |-> TheAttrs]
    /\ UNCHANGED <<input, output, PSD, mem>>

\* The ladders given to get_fit_auto: from one of the two widest widths
\* down to one of the next two in steps of 4, or down to a narrow one in
\* steps of 12.
MaxLadder == 6
LadderInputs ==
    {l \in [MaxWidth : {4 * MaxWidth4, 4 * (MaxWidth4 - 1)},
            MinWidth : {4 * (MaxWidth4 - 1), 4 * (MaxWidth4 - 2), 8},
            WidthIntervals : {4, 12}] :
        /\ l.MinWidth = 8 <=> l.WidthIntervals = 12
        /\ Len(ladder_of(l.MaxWidth, l.MinWidth, l.WidthIntervals)) <= MaxLadder}

\* self.get_fit_auto(CentralFreq, MaxWidth, MinWidth, WidthIntervals, ShowFig=False)
GetFitAuto ==
    /\ call = NoCall
    /\ \E CentralFreq \in {freqs[i] : i \in 1..NumBins}, l \in LadderInputs :
         \E r \in get_fit_auto_runs(PSD, TheAttrs, CentralFreq,
                                    l.MaxWidth, l.MinWidth, l.WidthIntervals) :
            /\ SetAttrs(r.attrs)
            /\ call' = [op |-> "get_fit_auto", CentralFreq |-> CentralFreq,
                        MaxWidth |-> l.MaxWidth, MinWidth |-> l.MinWidth,
                        WidthIntervals |-> l.WidthIntervals,
                        ladder |-> ladder_of(l.MaxWidth, l.MinWidth, l.WidthIntervals),
                        exc |-> r.exc, ret |-> r.ret, tried |-> r.tried,
                        bound |-> r.bound, BestWidth |-> r.BestWidth,
                        before |-> TheAttrs]
    /\ UNCHANGED <<input, output, PSD, mem>>

\* the caller takes the result; the object is ready for the next call
CallReturns ==
    /\ call # NoCall
    /\ call' = NoCall
    /\ UNCHANGED <<input, output, PSD, A, Ftrap, Gamma, mem>>

NextFit == GetFit \/ GetFitFromPeak \/ GetFitAuto \/ CallReturns

SpecFit == InitFit /\ [][NextFit]_vars

---------------------------------------------------------------------------
(* get_PSD and calc_PSD: the spectrum sorted by frequency *)

MaxBins == 3       \* most bins in the output of the spectral estimator
MaxFreq == 3       \* largest frequency in the output of the estimator

\* a[idx] of numpy for a sequence idx of 0-based positions
take(a, idx) == [k \in 1..Len(idx) |-> a[idx[k] + 1]]

\* the number of elements that a sort puts before the element at position i
rank(a, i) ==
    Cardinality({j \in 1..Len(a) : a[j] < a[i] \/ (a[j] = a[i] /\ j < i)})

\* a.argsort(): the 0-based positions of the elements of a in ascending order
argsort(a) == [k \in 1..Len(a) |-> (CHOOSE i \in 1..Len(a) : rank(a, i) = k - 1) - 1]

\* the content of a after a.sort()
sorted(a) == take(a, argsort(a))

sort_spectrum_freqs_first(freqs_native, PSD_native) ==
    [freqs |-> sorted(freqs_native),
     PSD |-> take(PSD_native, argsort(sorted(freqs_native)))]

\* PSD = PSD[freqs.argsort()]; freqs.sort()   (lines 170-171 and 1835-1836)
sort_spectrum(freqs_native, PSD_native) ==
    [freqs |-> sorted(freqs_native),
     PSD |-> take(PSD_native, argsort(freqs_native))]

\* calc_PSD(Signal, SampleFreq), given what scipy.signal.welch returns for them
calc_PSD(welch) == Return(sort_spectrum(welch.freqs, welch.PSD))

\* self.get_PSD(), given what scipy.signal.welch returns for self.voltage:
\* the returned self.freqs and self.PSD
get_PSD(welch) == Return(sort_spectrum(welch.freqs, welch.PSD))

\* What welch can return: one power for each frequency, the frequencies all
\* different and in any order (ascending for a real signal; 0, the positive
\* and then the negative ones for a complex signal).
WelchOutputs ==
    UNION {{[freqs |-> f, PSD |-> p] :
               f \in {g \in [1..n -> 0..MaxFreq] :
                         \A i, j \in 1..n : i # j => g[i] # g[j]},
               p \in [1..n -> 1..MaxPSD]} : n \in 1..MaxBins}

SpectrumInputs ==
    [fn : {"get_PSD", "calc_PSD"}, welch : WelchOutputs]

GetPSD ==
    /\ input.fn = "get_PSD"
    /\ Apply(get_PSD(input.welch))

CalcPSD ==
    /\ input.fn = "calc_PSD"
    /\ Apply(calc_PSD(input.welch))

SpecSpectrum == InitPure(SpectrumInputs) /\ [][GetPSD \/ CalcPSD]_vars

---------------------------------------------------------------------------
(* extract_parameters: radius, mass and conversion factor *)

MaxPressure == 2   \* largest pressure, in mbar
MaxPErr == 1       \* largest relative pressure error, in tenths
MaxAmp == 2        \* largest fitted A, and largest fitted damping

\* a positive quotient num / den of the quantities of lines 1005-1025, each
\* in units of its constant factor: the radius in units of
\* 0.169 * 9 * pi * eta * dm**2 / (sqrt(2) * rho * kB * T0), the mass in
\* units of rho * 4 * pi / 3 times the cube of that, the conversion factor,
\* carried as its square, in units of pi / (kB * T0) times the unit of mass
Quot(num, den) == [num |-> num, den |-> den]
SameQuot(x, y) == x.num * y.den = y.num * x.den
Cube(x) == Quot(x.num * x.num * x.num, x.den * x.den * x.den)

\* (2 * x)**2 of a squared relative error
FourTimes(x) == IF x.k = "fin" THEN Score(4 * x.num, x.den) ELSE x

\* lines 1005-1014 with the radius proportional to Pressure * Gamma0
radius_times_Gamma(Pressure, Gamma0) == Quot(100 * Pressure * Gamma0, 1)

\* lines 1005-1014: Pressure = 100 * Pressure, radius = const * Pressure / Gamma0
radius_of(Pressure, Gamma0) == Quot(100 * Pressure, Gamma0)

\* extract_parameters(Pressure, PressureErr, A, AErr, Gamma0, Gamma0Err) for
\* positive Pressure, A and Gamma0.  PressureErr is given in tenths.  An
\* error is carried as the square of its ratio to the value: err_radius is
\* radius * sqrt(PressureErr**2 + (Gamma0Err / Gamma0)**2), err_mass is
\* mass * 2 * err_radius / radius, and the conversion factor adds
\* (AErr / A)**2 and (Gamma0Err / Gamma0)**2 to that.
extract_parameters(Pressure, PressureErr, A_, AErr, Gamma0, Gamma0Err) ==
    LET radius == radius_of(Pressure, Gamma0)
        err_radius == AddScore(Score(PressureErr * PressureErr, 100),
                               RelSq(ufloat(Fin(Gamma0), Gamma0Err)))
        mass == Cube(radius)
        err_mass == FourTimes(err_radius)
        conversionFactor == Quot(A_ * mass.num, mass.den * Gamma0)
        err_conversionFactor == AddScore(AddScore(RelSq(ufloat(Fin(A_), AErr)), err_mass),
                                         RelSq(ufloat(Fin(Gamma0), Gamma0Err)))
    IN  <<<<radius, mass, conversionFactor>>,
          <<err_radius, err_mass, err_conversionFactor>>>>

\* DataObject.extract_parameters handing self.Ftrap instead of self.Gamma
extract_parameters_of_Ftrap(attrs, P_mbar, P_Error) ==
    IF attrs.A = Unset \/ attrs.Ftrap = Unset THEN Raise("AttributeError")
    ELSE LET r == extract_parameters(P_mbar, P_Error, attrs.A.n.v, attrs.A.std_dev,
                                     attrs.Ftrap.n.v, attrs.Ftrap.std_dev)
         IN  Return([Radius |-> ufloat(r[1][1], r[2][1]),
                     Mass |-> ufloat(r[1][2], r[2][2]),
                     ConvFactor |-> ufloat(r[1][3], r[2][3])])

\* DataObject.extract_parameters(P_mbar, P_Error) on an object with the
\* attributes attrs (lines 481-489): the values it stores as self.Radius,
\* self.Mass and self.ConvFactor and returns.  An object that was never
\* fitted has no self.A.
DataObject_extract_parameters(attrs, P_mbar, P_Error) ==
    IF attrs.A = Unset \/ attrs.Gamma = Unset THEN Raise("AttributeError")
    ELSE LET r == extract_parameters(P_mbar, P_Error, attrs.A.n.v, attrs.A.std_dev,
                                     attrs.Gamma.n.v, attrs.Gamma.std_dev)
         IN  Return([Radius |-> ufloat(r[1][1], r[2][1]),
                     Mass |-> ufloat(r[1][2], r[2][2]),
                     ConvFactor |-> ufloat(r[1][3], r[2][3])])

\* what a converged fit can have left in an attribute
FittedValues == {ufloat(Fin(n), s) : n \in 1..MaxAmp, s \in {Fin(0), Fin(1), Inf}}

ParameterInputs ==
    [fn : {"extract_parameters", "DataObject.extract_parameters"},
     P_mbar : 1..MaxPressure, P_Error : 0..MaxPErr,
     A : FittedValues, Ftrap : FittedValues, Gamma : FittedValues]

ExtractParameters ==
    /\ input.fn = "extract_parameters"
    /\ Apply(Return(extract_parameters(input.P_mbar, input.P_Error,
                                       input.A.n.v, input.A.std_dev,
                                       input.Gamma.n.v, input.Gamma.std_dev)))

ObjectExtractParameters ==
    /\ input.fn = "DataObject.extract_parameters"
    /\ Apply(DataObject_extract_parameters(Attrs(input.A, input.Ftrap, input.Gamma),
                                           input.P_mbar, input.P_Error))

SpecParameters == InitPure(ParameterInputs) /\ [][ExtractParameters \/ ObjectExtractParameters]_vars

---------------------------------------------------------------------------
(* The arrays of a DataObject *)

MaxVolt == 1       \* largest sampled voltage

\* the samples of the trace: welch with nperseg = len(time) gives NumBins
\* bins from them; the time axis is counted in sample intervals, so that
\* SampleFreq = 1 / HORIZ_INTERVAL is NumSamples * BinHz
NumSamples == 2 * (NumBins - 1)
SampleFreq == NumSamples * BinHz

\* An array is an entry of mem.heap, named by its id.  A numpy array object
\* is a window onto one: base[first + k * step] for k < count.  Basic slicing
\* gives another window onto the same entry, never a copy.
array(id, n) == [base |-> id, first |-> 0, count |-> n, step |-> 1]
NoRef == [base |-> 0, first |-> 0, count |-> 0, step |-> 1]
whole(m, id) == array(id, Len(m.heap[id]))
content(m, v) == [k \in 1..v.count |-> m.heap[v.base][v.first + (k - 1) * v.step + 1]]

\* v[start:stop] and v[0::step] for 0 <= start, stop and step >= 1
view_slice(v, start, stop) ==
    LET a == Min(start, v.count)
        b == Max(Min(stop, v.count), a)
    IN  [base |-> v.base, first |-> v.first + a * v.step, count |-> b - a, step |-> v.step]
view_every(v, step) == [base |-> v.base, first |-> v.first, count |-> (v.count + step - 1) \div step, step |-> v.step * step]

\* v[k] = x, and a new array holding c; its id is the old m.next
store(m, v, k, x) == [m EXCEPT !.heap[v.base][v.first + k * v.step + 1] = x]
alloc(m, c) == [m EXCEPT !.heap = (m.next :> c) @@ @, !.next = @ + 1]

\* the names bound at module level that the channel functions call; a call
\* of any other global name raises NameError
module_globals == {"take_closest", "get_ZXY_freqs", "get_ZXY_data", "get_ZXY_data_IFFT", "IFFT_filter", "IIR_filter_design", "_np", "_plt", "scipy"}
lookup(name) == IF name \in module_globals THEN "none" ELSE "NameError"

\* timeStart and timeEnd: "Default" or a time
Default == [default |-> TRUE]
At(t) == [default |-> FALSE, t |-> t]

\* lines 1142-1148, 1256-1262: the indices of the samples closest to timeStart
\* and timeEnd; by default the first and the last sample
StartIndex_of(time, timeStart) == IndexOf(time, take_closest(time, IF timeStart = Default THEN time[1] ELSE timeStart.t))
EndIndex_of(time, timeEnd) == IndexOf(time, take_closest(time, IF timeEnd = Default THEN time[Len(time)] ELSE timeEnd.t))

\* a result of a function that works on the arrays: the arrays afterwards,
\* the exception raised and the value returned
Raised(m, e) == [m |-> m, exc |-> e, ret |-> <<>>]
Returned(m, v) == [m |-> m, exc |-> "none", ret |-> v]

\* Signalfft taken to be the signal itself instead of a new array
fft_in_place(m, Signal) == Returned(m, Signal)

\* scipy.fftpack.fft(Signal): a new array of len(Signal) coefficients.  The
\* k-th coefficient is written k + 1: what is followed is which coefficients
\* are zeroed, not their values.
fft(m, Signal) == Returned(alloc(m, [k \in 1..Signal.count |-> k]), array(m.next, Signal.count))

\* numpy.fft.fftfreq(n)[i] * n: 0, 1, ..., (n-1)//2, -(n//2), ..., -1
fftfreq_n(i, n) == IF i <= (n - 1) \div 2 THEN i ELSE i - n

\* line 1466 for bin i: freq < lowerFreq or freq > upperFreq, where
\* freq = fftfreq(n)[i] * SampleFreq
outside(i, n, fs, lowerFreq, upperFreq) ==
    \/ fftfreq_n(i, n) * fs < lowerFreq * n
    \/ fftfreq_n(i, n) * fs > upperFreq * n

\* lines 1465-1467: the loop that zeroes the bins outside the band
RECURSIVE zero_bins(_, _, _, _, _, _)
zero_bins(m, Signalfft, i, fs, lowerFreq, upperFreq) ==
    IF i >= Signalfft.count THEN m
    ELSE zero_bins(IF outside(i, Signalfft.count, fs, lowerFreq, upperFreq)
                   THEN store(m, Signalfft, i, 0) ELSE m,
                   Signalfft, i + 1, fs, lowerFreq, upperFreq)

\* IFFT_filter(Signal, SampleFreq, lowerFreq, upperFreq), lines 1460-1471.
\* 2 * ifft(Signalfft) is a new array, held by its coefficients; the real
\* part returned is a window onto it.  fft rejects an empty signal.
IFFT_filter(m, Signal, fs, lowerFreq, upperFreq) ==
    IF Signal.count = 0 THEN Raised(m, "ValueError")
    ELSE LET Signalfft == fft(m, Signal)
             zeroed == zero_bins(Signalfft.m, Signalfft.ret, 0, fs, lowerFreq, upperFreq)
         IN  Returned(alloc(zeroed, Doubled(content(zeroed, Signalfft.ret))),
                      array(zeroed.next, Signal.count))

\* get_ZXY_data_IFFT(Data, zf, xf, yf, zwidth, xwidth, ywidth, timeStart,
\* timeEnd, ShowFig=False), lines 1256-1300, for even widths.  The band of
\* each of the three channels is cut with zwidth.
get_ZXY_data_IFFT(m, zf, xf, yf, zwidth, xwidth, ywidth, timeStart, timeEnd) ==
    LET time == m.heap[m.self.time]
        StartIndex == StartIndex_of(time, timeStart)
        EndIndex == EndIndex_of(time, timeEnd)
        input_signal == view_slice(whole(m, m.self.voltage), StartIndex, EndIndex)
        zdata == IFFT_filter(m, input_signal, SampleFreq, zf - zwidth \div 2, zf + zwidth \div 2)
        xdata == IFFT_filter(zdata.m, input_signal, SampleFreq, xf - zwidth \div 2, xf + zwidth \div 2)
        ydata == IFFT_filter(xdata.m, input_signal, SampleFreq, yf - zwidth \div 2, yf + zwidth \div 2)
        timedata == view_slice(whole(m, m.self.time), StartIndex, EndIndex)
    IN  IF zdata.exc # "none" THEN Raised(zdata.m, zdata.exc)
        ELSE IF xdata.exc # "none" THEN Raised(xdata.m, xdata.exc)
        ELSE IF ydata.exc # "none" THEN Raised(ydata.m, ydata.exc)
        ELSE Returned(ydata.m, <<zdata.ret, xdata.ret, ydata.ret, timedata>>)

\* the value of a sample that is not a number in a filtered signal
nan_sample == 0 - 1
isnan_any(c) == \E k \in 1..Len(c) : c[k] = nan_sample

\* what scipy.signal.filtfilt and lfilter can give for the three channels of
\* a signal of n samples: new arrays of numbers or, for an unstable filter,
\* of NaN; here at most one of the three filters is unstable
FilterOutputs(n) == {[a \in 1..3 |-> [k \in 1..n |-> IF a = bad THEN nan_sample ELSE 0]] : bad \in 0..3}

\* lines 1162-1168, 1170-1176, 1178-1184: one channel of get_ZXY_data, given
\* the output of the filter.  The filter is designed by the global name
\* IIRFilterDesign.
filter_channel(m, input_signal, filtered) ==
    IF lookup("IIRFilterDesign") # "none" THEN Raised(m, lookup("IIRFilterDesign"))
    ELSE IF isnan_any(filtered) THEN Raised(alloc(m, filtered), "ValueError")
    ELSE Returned(alloc(m, filtered), array(m.next, Len(filtered)))

\* get_ZXY_data(Data, zf, xf, yf, FractionOfSampleFreq, zwidth, xwidth, ywidth,
\* filterImplementation=..., timeStart=..., timeEnd=..., ShowFig=...), lines
\* 1142-1205, for FractionOfSampleFreq >= 1; filtered holds the outputs of
\* the filter for z, x and y.  The centre frequencies, widths and transition
\* widths go to IIRFilterDesign and nowhere else.
get_ZXY_data(m, FractionOfSampleFreq, filterImplementation, timeStart, timeEnd, ShowFig, filtered) ==
    LET time == m.heap[m.self.time]
        StartIndex == StartIndex_of(time, timeStart)
        EndIndex == EndIndex_of(time, timeEnd)
        input_signal == view_every(view_slice(whole(m, m.self.voltage), StartIndex, EndIndex), FractionOfSampleFreq)
        zdata == filter_channel(m, input_signal, filtered[1])
        xdata == filter_channel(zdata.m, input_signal, filtered[2])
        ydata == filter_channel(xdata.m, input_signal, filtered[3])
        timedata == view_every(view_slice(whole(m, m.self.time), StartIndex, EndIndex), FractionOfSampleFreq)
    IN  IF filterImplementation \notin {"filtfilt", "lfilter"} THEN Raised(m, "ValueError")
        ELSE IF zdata.exc # "none" THEN Raised(zdata.m, zdata.exc)
        ELSE IF xdata.exc # "none" THEN Raised(xdata.m, xdata.exc)
        ELSE IF ydata.exc # "none" THEN Raised(ydata.m, ydata.exc)
        ELSE IF ShowFig /\ lookup("_ply") # "none" THEN Raised(ydata.m, lookup("_ply"))
        ELSE Returned(ydata.m, <<zdata.ret, xdata.ret, ydata.ret, timedata>>)

\* lines 1054-1067: one frequency of get_ZXY_freqs, for an even bandwidth:
\* the frequencies of the bins whose power equals the largest in the bins
\* [lower, upper) around freq; max() of an empty window raises ValueError
trap_freq(m, freq, bandwidth) ==
    LET f == m.heap[m.self.freqs]
        P == m.heap[m.self.PSD]
        z_indx_fit_lower == IndexOf(f, take_closest(f, freq - bandwidth \div 2))
        z_indx_fit_upper == IndexOf(f, take_closest(f, freq + bandwidth \div 2))
        window == Slice(P, z_indx_fit_lower, z_indx_fit_upper)
        z_index_ftrap == {i \in 1..Len(P) : P[i] = SeqMax(window)}
    IN  IF window = <<>> THEN Raise("ValueError")
        ELSE Return([k \in 1..Cardinality(z_index_ftrap) |-> f[CHOOSE i \in z_index_ftrap : Cardinality({j \in z_index_ftrap : j < i}) = k - 1]])

\* get_ZXY_freqs(Data, zfreq, xfreq, yfreq, bandwidth), lines 1052-1068: each
\* Data.freqs[z_index_ftrap] is a new array; none of them changes Data.freqs
\* or Data.PSD, so the three are found on the arrays as they were
get_ZXY_freqs(m, zfreq, xfreq, yfreq, bandwidth) ==
    LET z == trap_freq(m, zfreq, bandwidth)
        x == trap_freq(m, xfreq, bandwidth)
        y == trap_freq(m, yfreq, bandwidth)
    IN  IF z.exc # "none" THEN Raised(m, z.exc)
        ELSE IF x.exc # "none" THEN Raised(alloc(m, z.val), x.exc)
        ELSE IF y.exc # "none" THEN Raised(alloc(alloc(m, z.val), x.val), y.exc)
        ELSE Returned(alloc(alloc(alloc(m, z.val), x.val), y.val),
                      <<array(m.next, Len(z.val)), array(m.next + 1, Len(x.val)),
                        array(m.next + 2, Len(y.val))>>)

\* lines 522-526 of extract_ZXY_motion, where f is what get_ZXY_freqs gave:
\* get_ZXY_data is called with its defaults, ShowFig = True among them, and
\* its result is unpacked into the three attributes.  ZXYPeakWidths goes to
\* get_ZXY_data, which hands it to IIRFilterDesign.
filter_refined(f, subSampleFraction, filtered) ==
    LET d == get_ZXY_data(f.m, subSampleFraction, "filtfilt", Default, Default, TRUE, filtered)
    IN  IF f.exc # "none" THEN Raised(f.m, f.exc)
        ELSE IF d.exc # "none" THEN Raised(d.m, d.exc)
        ELSE IF Len(d.ret) # 3 THEN Raised(d.m, "ValueError")
        ELSE Returned([d.m EXCEPT !.self.zVolts = d.ret[1], !.self.xVolts = d.ret[2], !.self.yVolts = d.ret[3]],
                      <<d.ret[1], d.ret[2], d.ret[3]>>)

\* DataObject.extract_ZXY_motion(ApproxZXYFreqs, uncertaintyInFreqs,
\* ZXYPeakWidths, subSampleFraction), lines 519-526
extract_ZXY_motion(m, ApproxZXYFreqs, uncertaintyInFreqs, subSampleFraction, filtered) ==
    CHOOSE r \in {filter_refined(f, subSampleFraction, filtered) : f \in {get_ZXY_freqs(m, ApproxZXYFreqs[1], ApproxZXYFreqs[2], ApproxZXYFreqs[3], uncertaintyInFreqs)}} : TRUE

\* DataObject.get_PSD() on the arrays, lines 164-174, given the powers welch
\* estimates: welch's two arrays are new, PSD[freqs.argsort()] is a third,
\* freqs.sort() sorts welch's frequency array in place, and self.PSD and
\* self.freqs are bound to the new arrays
object_get_PSD(m, welch_PSD) ==
    LET welch_freqs == [k \in 1..(NumSamples \div 2 + 1) |-> ((k - 1) * SampleFreq) \div NumSamples]
        m1 == alloc(alloc(m, welch_freqs), welch_PSD)
        m2 == alloc(m1, take(welch_PSD, argsort(welch_freqs)))
        m3 == [m2 EXCEPT !.heap[m.next] = sorted(welch_freqs)]
    IN  Returned([m3 EXCEPT !.self.freqs = m.next, !.self.PSD = m.next + 2],
                 <<array(m.next, Len(welch_freqs)), array(m.next + 2, Len(welch_PSD))>>)

\* numpy.cumsum(a)
RECURSIVE cumsum(_)
cumsum(a) == IF a = <<>> THEN <<>> ELSE LET c == cumsum(SubSeq(a, 1, Len(a) - 1)) IN Append(c, (IF c = <<>> THEN 0 ELSE c[Len(c)]) + a[Len(a)])

\* moving_average(array, n), lines 753-755: the cumulative sum is a new
\* array, changed in place, and the average returned is another
moving_average(m, a, n) ==
    LET c == cumsum(content(m, a))
        ret == [k \in 1..Len(c) |-> IF k > n THEN c[k] - c[k - n] ELSE c[k]]
        m1 == [alloc(m, c) EXCEPT !.heap[m.next] = ret]
    IN  Returned(alloc(m1, [k \in 1..(Len(ret) - n + 1) |-> ret[k + n - 1] \div n]),
                 array(m1.next, Len(ret) - n + 1))

\* the arrays fit_PSD makes (lines 866, 893-895) with NMovAve = 1: AngFreqs,
\* in units of pi, the two smoothed arrays and the logarithm of the smoothed
\* powers, which is held by the powers.  The fits read self.freqs and
\* self.PSD and write to none of them.
fit_PSD_arrays(m) ==
    LET m1 == alloc(m, Doubled(m.heap[m.self.freqs]))
        PSD_smoothed == moving_average(m1, whole(m1, m1.self.PSD), 1)
        freqs_smoothed == moving_average(PSD_smoothed.m, array(m.next, Len(m.heap[m.self.freqs])), 1)
    IN  alloc(freqs_smoothed.m, content(freqs_smoothed.m, PSD_smoothed.ret))

\* the arrays a fit leaves behind, by how far fit_PSD got: not called, stopped
\* at lines 886-889 with only AngFreqs made, or run down to the optimizer
fit_arrays_of(m, optimizer) ==
    IF optimizer = "not called" THEN m
    ELSE IF optimizer \in {"empty window", "several maxima"} THEN alloc(m, Doubled(m.heap[m.self.freqs]))
    ELSE fit_PSD_arrays(m)

\* the ids of the arrays the object refers to, in the order of their new
\* names once everything else is dropped
self_arrays(m) == <<m.self.time, m.self.voltage, m.self.freqs, m.self.PSD>> \o (IF m.self.zVolts = NoRef THEN <<>> ELSE <<m.self.zVolts.base, m.self.xVolts.base, m.self.yVolts.base>>)

\* the arrays once the caller has dropped what it was given: the arrays of
\* the object, named 1, 2, ... again
dropped(m) ==
    LET ids == self_arrays(m)
        rebased(v, k) == IF v = NoRef THEN v ELSE [v EXCEPT !.base = k]
    IN  [heap |-> [k \in 1..Len(ids) |-> m.heap[ids[k]]],
         next |-> Len(ids) + 1,
         self |-> [m.self EXCEPT !.time = 1, !.voltage = 2, !.freqs = 3, !.PSD = 4,
                                 !.zVolts = rebased(@, 5), !.xVolts = rebased(@, 6),
                                 !.yVolts = rebased(@, 7)]]

\* the powers welch estimates for the trace of an object: flat, or with one
\* bin standing out
ObjectPSDs == {[i \in 1..NumBins |-> IF i = p THEN MaxPSD ELSE 1] : p \in 0..NumBins}

\* DataObject(filepath), lines 67-72: get_time_data binds self.time and
\* self.voltage to the arrays read from the file, get_PSD makes the spectrum.
\* The samples all have the value v: no operation looks at their values.
constructed(v, welch_PSD) ==
    LET read == [heap |-> <<[i \in 1..NumSamples |-> i - 1], [i \in 1..NumSamples |-> v]>>,
                 next |-> 3,
                 self |-> [time |-> 1, voltage |-> 2, freqs |-> 0, PSD |-> 0,
                           zVolts |-> NoRef, xVolts |-> NoRef, yVolts |-> NoRef,
                           Radius |-> Unset, Mass |-> Unset, ConvFactor |-> Unset]]
    IN  dropped(object_get_PSD(read, welch_PSD).m)

InitObject ==
    /\ input = [fn |-> "none"]
    /\ output = NoOutput
    /\ PSD = NoData
    /\ A = Unset /\ Ftrap = Unset /\ Gamma = Unset
    /\ call = NoCall
    /\ mem \in {constructed(v, P) : v \in 1..MaxVolt, P \in ObjectPSDs}

\* self.get_PSD()
ObjGetPSD ==
    /\ call = NoCall
    /\ \E P \in ObjectPSDs :
         \E r \in {object_get_PSD(mem, P)} :
             /\ mem' = r.m
             /\ call' = [op |-> "get_PSD", exc |-> r.exc, ret |-> r.ret]
    /\ UNCHANGED <<input, output, PSD, A, Ftrap, Gamma>>

\* self.get_fit(TrapFreq, WidthOfPeakToFit, MakeFig=False) on the spectrum
\* the object holds
ObjGetFit ==
    /\ call = NoCall
    /\ \E TrapFreq \in {freqs[i] : i \in 1..NumBins} :
         \E r \in get_fit_runs(mem.heap[mem.self.PSD], TheAttrs, TrapFreq, 4 * MaxWidth4,
                               DefaultAInitial, 4 * DefaultGammaInitial, NoMemo) :
            /\ SetAttrs(r.attrs)
            /\ mem' = fit_arrays_of(mem, r.optimizer)
            /\ call' = [op |-> "get_fit", exc |-> r.exc,
                        ret |-> IF r.exc = "none" THEN r.attrs ELSE NoResult]
    /\ UNCHANGED <<input, output, PSD>>

\* self.get_fit_from_peak(lowerLimit, upperLimit, ShowFig=False)
ObjGetFitFromPeak ==
    /\ call = NoCall
    /\ \E CentralFreq \in {freqs[i] : i \in 1..NumBins} :
         \E r \in get_fit_from_peak_runs(mem.heap[mem.self.PSD], TheAttrs,
                                         CentralFreq - 2 * MaxWidth4,
                                         CentralFreq + 2 * MaxWidth4, NoMemo) :
            /\ SetAttrs(r.attrs)
            /\ mem' = fit_arrays_of(mem, r.optimizer)
            /\ call' = [op |-> "get_fit_from_peak", exc |-> r.exc, ret |-> r.ret]
    /\ UNCHANGED <<input, output, PSD>>

\* self.get_fit_auto(CentralFreq, MaxWidth, MinWidth, WidthIntervals,
\* ShowFig=False); the arrays left are those of the last fit made
ObjGetFitAuto ==
    /\ call = NoCall
    /\ \E CentralFreq \in {freqs[i] : i \in 1..NumBins} :
         \E r \in get_fit_auto_runs(mem.heap[mem.self.PSD], TheAttrs, CentralFreq,
                                    4 * MaxWidth4, 4 * (MaxWidth4 - 1), 4) :
            /\ SetAttrs(r.attrs)
            /\ mem' = IF r.tried = <<>> THEN mem
                      ELSE fit_arrays_of(mem, r.tried[Len(r.tried)].optimizer)
            /\ call' = [op |-> "get_fit_auto", exc |-> r.exc, ret |-> r.ret]
    /\ UNCHANGED <<input, output, PSD>>

\* self.extract_parameters(P_mbar, P_Error)
ObjExtractParameters ==
    /\ call = NoCall
    /\ \E P_mbar \in {MaxPressure} :
         \E r \in {DataObject_extract_parameters(TheAttrs, P_mbar, 1)} :
             /\ mem' = IF r.exc # "none" THEN mem
                       ELSE [mem EXCEPT !.self.Radius = r.val.Radius,
                                        !.self.Mass = r.val.Mass,
                                        !.self.ConvFactor = r.val.ConvFactor]
             /\ call' = [op |-> "extract_parameters", exc |-> r.exc,
                         ret |-> IF r.exc = "none" THEN r.val ELSE NoResult]
    /\ UNCHANGED <<input, output, PSD, A, Ftrap, Gamma>>

\* the approximate frequencies handed to the channel functions, and the
\* widths of the bands: even, so that width / 2 is exact
ChannelFreqs == {0, 2 * BinHz}
ChannelWidths == {2, 2 * BinHz}
TimeWindows == {<<Default, Default>>, <<At(0), At(2)>>, <<At(2), At(2)>>}

\* get_ZXY_freqs(self, zfreq, xfreq, yfreq, bandwidth)
ObjGetZXYFreqs ==
    /\ call = NoCall
    /\ \E zfreq \in ChannelFreqs, xfreq \in ChannelFreqs, bandwidth \in ChannelWidths :
         \E r \in {get_ZXY_freqs(mem, zfreq, xfreq, 2 * BinHz, bandwidth)} :
             /\ mem' = r.m
             /\ call' = [op |-> "get_ZXY_freqs", zfreq |-> zfreq, xfreq |-> xfreq,
                         yfreq |-> 2 * BinHz, bandwidth |-> bandwidth,
                         exc |-> r.exc, ret |-> r.ret]
    /\ UNCHANGED <<input, output, PSD, A, Ftrap, Gamma>>

\* get_ZXY_data(self, zf, xf, yf, FractionOfSampleFreq, zwidth, xwidth, ywidth,
\* filterImplementation=..., timeStart=..., timeEnd=..., ShowFig=...)
ObjGetZXYData ==
    /\ call = NoCall
    /\ \E FractionOfSampleFreq \in 1..2, filterImplementation \in {"filtfilt", "lfilter", "fir"},
          window \in TimeWindows, ShowFig \in BOOLEAN :
         \E timeStart \in {window[1]}, timeEnd \in {window[2]}, filtered \in FilterOutputs(NumSamples) :
           \E r \in {get_ZXY_data(mem, FractionOfSampleFreq, filterImplementation,
                                 timeStart, timeEnd, ShowFig, filtered)} :
               /\ mem' = r.m
               /\ call' = [op |-> "get_ZXY_data", FractionOfSampleFreq |-> FractionOfSampleFreq,
                           filterImplementation |-> filterImplementation,
                           timeStart |-> timeStart, timeEnd |-> timeEnd, ShowFig |-> ShowFig,
                           filtered |-> filtered, exc |-> r.exc, ret |-> r.ret]
    /\ UNCHANGED <<input, output, PSD, A, Ftrap, Gamma>>

\* get_ZXY_data_IFFT(self, zf, xf, yf, zwidth, xwidth, ywidth, timeStart,
\* timeEnd, ShowFig=False)
ObjGetZXYDataIFFT ==
    /\ call = NoCall
    /\ \E zf \in ChannelFreqs, xf \in ChannelFreqs, zwidth \in ChannelWidths, xwidth \in ChannelWidths,
          window \in TimeWindows :
         \E timeStart \in {window[1]}, timeEnd \in {window[2]} :
           \E r \in {get_ZXY_data_IFFT(mem, zf, xf, 2 * BinHz, zwidth, xwidth, 2, timeStart, timeEnd)} :
             /\ mem' = r.m
             /\ call' = [op |-> "get_ZXY_data_IFFT", zf |-> zf, xf |-> xf, yf |-> 2 * BinHz,
                         zwidth |-> zwidth, xwidth |-> xwidth, ywidth |-> 2,
                         timeStart |-> timeStart, timeEnd |-> timeEnd,
                         exc |-> r.exc, ret |-> r.ret]
    /\ UNCHANGED <<input, output, PSD, A, Ftrap, Gamma>>

\* self.extract_ZXY_motion(ApproxZXYFreqs, uncertaintyInFreqs, ZXYPeakWidths,
\* subSampleFraction)
ObjExtractZXYMotion ==
    /\ call = NoCall
    /\ \E zfreq \in ChannelFreqs, xfreq \in {0}, uncertaintyInFreqs \in ChannelWidths,
          subSampleFraction \in 1..2 :
         \E filtered \in FilterOutputs(NumSamples) :
           \E r \in {extract_ZXY_motion(mem, <<zfreq, xfreq, 2 * BinHz>>, uncertaintyInFreqs,
                                       subSampleFraction, filtered)} :
               /\ mem' = r.m
               /\ call' = [op |-> "extract_ZXY_motion", ApproxZXYFreqs |-> <<zfreq, xfreq, 2 * BinHz>>,
                           uncertaintyInFreqs |-> uncertaintyInFreqs,
                           subSampleFraction |-> subSampleFraction,
                           filtered |-> filtered, exc |-> r.exc, ret |-> r.ret]
    /\ UNCHANGED <<input, output, PSD, A, Ftrap, Gamma>>

\* the caller takes the result and drops it
ObjCallReturns ==
    /\ call # NoCall
    /\ call' = NoCall
    /\ mem' = dropped(mem)
    /\ UNCHANGED <<input, output, PSD, A, Ftrap, Gamma>>

NextObject ==
    \/ ObjGetPSD \/ ObjGetFit \/ ObjGetFitFromPeak \/ ObjGetFitAuto
    \/ ObjExtractParameters \/ ObjGetZXYFreqs \/ ObjGetZXYData
    \/ ObjGetZXYDataIFFT \/ ObjExtractZXYMotion \/ ObjCallReturns

SpecObject == InitObject /\ [][NextObject]_vars

---------------------------------------------------------------------------
(* find_collisions: the samples away from the mean of the discriminator *)

MaxFmdLen == 3     \* most samples of a discriminator sequence
MaxFmd == 2        \* largest magnitude of a discriminator value

RECURSIVE SeqSum(_)
SeqSum(s) == IF s = <<>> THEN 0 ELSE s[1] + SeqSum(Tail(s))

\* numpy.mean(fmd) of a non-empty sequence, as the quotient sum / len
mean(fmd) == Quot(SeqSum(fmd), Len(fmd))

\* _approx_equal(a, b, tol), line 1914: abs(a - b) / a * 100 < tol in numpy
\* floats, for a = a.num / a.den with a.den > 0.  abs(a - b) / a is
\* abs(a.num - b * a.den) / a.num: below tol when 100 * abs(..) < tol * a.num
\* for a positive a, when 100 * abs(..) > tol * a.num for a negative a (the
\* division turns the comparison over), and inf or nan, which is below
\* nothing, for a = 0.
approx_equal(a, b, tol) ==
    LET dev == IF a.num >= b * a.den THEN a.num - b * a.den ELSE b * a.den - a.num
    IN  IF a.num > 0 THEN 100 * dev < tol * a.num
        ELSE IF a.num < 0 THEN 100 * dev > tol * a.num
        ELSE FALSE

\* _is_this_a_collision([value, mean_fmd, tolerance]), lines 1938-1942
is_this_a_collision(value, mean_fmd, tolerance) == ~approx_equal(mean_fmd, value, tolerance)

\* find_collisions(Signal, tolerance), lines 1962-1968, from the values
\* fmd = fm_discriminator(Signal) on
find_collisions(fmd, tolerance) == [i \in 1..Len(fmd) |-> is_this_a_collision(fmd[i], mean(fmd), tolerance)]

\* the discriminator is an angle, arctan2(I, R): of either sign
DiscriminatorInputs ==
    [fn : {"find_collisions"},
     fmd : UNION {[1..n -> (0 - MaxFmd)..MaxFmd] : n \in 1..MaxFmdLen},
     tolerance : {0, 50, 100}]

FindCollisions ==
    /\ input.fn = "find_collisions"
    /\ Apply(Return(find_collisions(input.fmd, input.tolerance)))

SpecDiscriminator == InitPure(DiscriminatorInputs) /\ [][FindCollisions]_vars

---------------------------------------------------------------------------
(* The model function of fit_PSD *)

MaxOmega == 2      \* largest angular frequency of a data point
MaxPoints == 2     \* most data points in one evaluation

\* float64 values of the model function: a quotient num / den of integers
\* with den > 0, the infinities and nan
Quotient(num, den) == [k |-> "fin", num |-> num, den |-> den]
PlusInf == [k |-> "inf", num |-> 1, den |-> 0]
MinusInf == [k |-> "inf", num |-> 0 - 1, den |-> 0]
NotANumber == [k |-> "nan", num |-> 0, den |-> 0]

\* numpy's a / b for a float64 array b >= 0: a division by zero gives an
\* infinity, or nan for 0 / 0, with a RuntimeWarning and no exception
divide(a, b) ==
    IF b # 0 THEN Quotient(a, b)
    ELSE IF a > 0 THEN PlusInf
    ELSE IF a < 0 THEN MinusInf
    ELSE NotANumber

\* 10 * numpy.log10(x): nan for a negative x, -inf for 0, each with a
\* RuntimeWarning; else the level of x in decibel, kept as the quotient
ten_log10(x) ==
    IF x.k = "nan" \/ x.num < 0 THEN NotANumber
    ELSE IF x.k = "inf" THEN PlusInf
    ELSE IF x.num = 0 THEN MinusInf
    ELSE [k |-> "dB", num |-> x.num, den |-> x.den]

\* lines 788-820
PSD_fitting_eqn(A_, OmegaTrap, gamma, omega) ==
    divide(A_, (OmegaTrap * OmegaTrap - omega * omega) * (OmegaTrap * OmegaTrap - omega * omega) + (omega * gamma) * (omega * gamma))

\* the value 1e9 returned at line 908
Penalty == 1000000000

\* what the model function returns: the scalar 1e9 or an array with one
\* value for each frequency
scalar(x) == [scalar |-> TRUE, at |-> <<Quotient(x, 1)>>]
ndarray(values) == [scalar |-> FALSE, at |-> values]

\* the model function with the penalty for a fit that is negative in all of
\* its parameters only
calc_theory_PSD_all_negative(freqs_, A_, TrapFreq, BigGamma) ==
    LET Theory_PSD == ndarray([k \in 1..Len(freqs_) |-> ten_log10(PSD_fitting_eqn(A_, TrapFreq, BigGamma, freqs_[k]))])
    IN  IF A_ < 0 /\ TrapFreq < 0 /\ BigGamma < 0 THEN scalar(Penalty) ELSE Theory_PSD

\* lines 904-910
calc_theory_PSD_curve_fit(freqs_, A_, TrapFreq, BigGamma) ==
    LET Theory_PSD == ndarray([k \in 1..Len(freqs_) |-> ten_log10(PSD_fitting_eqn(A_, TrapFreq, BigGamma, freqs_[k]))])
    IN  IF A_ < 0 \/ TrapFreq < 0 \/ BigGamma < 0 THEN scalar(Penalty) ELSE Theory_PSD

\* the evaluations the optimizer can ask for
ModelFunctionInputs ==
    [fn : {"calc_theory_PSD_curve_fit"},
     freqs : UNION {[1..n -> 0..MaxOmega] : n \in 1..MaxPoints},
     A : (0 - 1)..MaxParam,
     TrapFreq : (0 - 1)..MaxParam,
     BigGamma : (0 - 1)..MaxParam]

CalcTheoryPSD ==
    /\ input.fn = "calc_theory_PSD_curve_fit"
    /\ Apply(Return(calc_theory_PSD_curve_fit(input.freqs, input.A, input.TrapFreq, input.BigGamma)))

SpecModelFunction == InitPure(ModelFunctionInputs) /\ [][CalcTheoryPSD]_vars

---------------------------------------------------------------------------
(* fit_curvefit *)

MaxCov == 1        \* largest finite entry on the diagonal of pcov

\* the entries a diagonal of pcov can hold
CovEntries == {Quotient(n, 1) : n \in (0 - MaxCov)..MaxCov} \cup {PlusInf, MinusInf, NotANumber}

\* pcov as curve_fit returns it: a matrix, of which the diagonal is kept, or,
\* in the scipy versions before 0.14, the float inf when the covariance
\* cannot be estimated
Matrix(diagonal) == [matrix |-> TRUE, diagonal |-> diagonal]
ScalarInf == [matrix |-> FALSE, diagonal |-> <<>>]

\* _np.absolute(x)**0.5 (line 729): inf for both infinities, nan for nan
root_of_absolute(x) ==
    IF x.k = "nan" THEN NotANumber
    ELSE IF x.k = "inf" THEN PlusInf
    ELSE [k |-> "sqrt", num |-> IF x.num < 0 THEN 0 - x.num ELSE x.num, den |-> x.den]

\* the error with nan for every entry that is not finite
root_or_nan(x) == IF x.k = "fin" THEN root_of_absolute(x) ELSE NotANumber

\* lines 727-731: pcov[i][i] raises for a pcov that is a float, and the
\* error is then nan
error_entry_nan_if_not_finite(pcov, i) ==
    IF pcov.matrix THEN root_or_nan(pcov.diagonal[i]) ELSE NotANumber

error_entry(pcov, i) ==
    IF pcov.matrix THEN root_of_absolute(pcov.diagonal[i]) ELSE NotANumber

\* lines 723-734, for what _curve_fit did: an exception of _curve_fit leaves
\* fit_curvefit, else pfit comes with the errors
fit_curvefit(curve_fit) ==
    IF curve_fit.exc # "none" THEN curve_fit
    ELSE Return([pfit_curvefit |-> curve_fit.val.pfit,
                 perr_curvefit |-> [i \in 1..Len(curve_fit.val.pfit) |-> error_entry(curve_fit.val.pcov, i)]])

CurveFitInputs ==
    [fn : {"fit_curvefit"},
     curve_fit : {Raise("RuntimeError")}
                 \cup {Return([pfit |-> [i \in 1..NumParams |-> 1], pcov |-> c]) :
                          c \in {ScalarInf} \cup {Matrix(d) : d \in [1..NumParams -> CovEntries]}}]

FitCurvefit ==
    /\ input.fn = "fit_curvefit"
    /\ Apply(fit_curvefit(input.curve_fit))

SpecCurveFit == InitPure(CurveFitInputs) /\ [][FitCurvefit]_vars

---------------------------------------------------------------------------
(* moving_average on the values *)

\* the slice ret[n - 1:] / n of a cumulative sum that line 754 left as it was
moving_average_of_cumsum(array_, n) ==
    LET ret == cumsum(array_)
    IN  [k \in 1..Max(Len(ret) - n + 1, 0) |-> Quotient(ret[k + n - 1], n)]

\* lines 753-755 for n >= 1: ret[n:] = ret[n:] - ret[:-n] takes from every
\* sum but the first n the sum n places before, as it was before the
\* assignment; the result is ret[n - 1:] / n, in floats
moving_average_values(array_, n) ==
    LET c == cumsum(array_)
        ret == [k \in 1..Len(c) |-> IF k > n THEN c[k] - c[k - n] ELSE c[k]]
    IN  [k \in 1..Max(Len(ret) - n + 1, 0) |-> Quotient(ret[k + n - 1], n)]

SmoothingInputs ==
    [fn : {"moving_average"},
     array : UNION {[1..len -> 0..MaxVal] : len \in 1..MaxLen},
     n : 1..MaxLen]

MovingAverage ==
    /\ input.fn = "moving_average"
    /\ Apply(Return(moving_average_values(input.array, input.n)))

SpecSmoothing == InitPure(SmoothingInputs) /\ [][MovingAverage]_vars

---------------------------------------------------------------------------
(* Claims on the pure functions *)

Dist(a, b) == IF a >= b THEN a - b ELSE b - a
Called(fn) == input.fn = fn /\ output # NoOutput

\* C1: on a non-empty sorted list take_closest returns an element of the list
\* at minimal distance from the target; of two equally close elements it
\* returns the smaller; a target at or below the minimum gives the minimum,
\* a target at or above the maximum gives the maximum.
C1_TakeClosestNearest ==
    (Called("take_closest") /\ Len(input.myList) > 0) =>
        LET L == input.myList
            t == input.myNumber
        IN  /\ output.exc = "none"
            /\ \E i \in 1..Len(L) : L[i] = output.val
            /\ \A i \in 1..Len(L) : Dist(output.val, t) <= Dist(L[i], t)
            /\ \A i \in 1..Len(L) :
                   Dist(L[i], t) = Dist(output.val, t) => output.val <= L[i]
            /\ (t <= L[1] => output.val = L[1])
            /\ (t >= L[Len(L)] => output.val = L[Len(L)])

\* the target is the midpoint of two adjacent, different elements
C1_Witness ==
    /\ Called("take_closest")
    /\ \E i \in 1..(Len(input.myList) - 1) :
           /\ input.myList[i] < input.myList[i + 1]
           /\ input.myNumber - input.myList[i] = input.myList[i + 1] - input.myNumber
           /\ output = Return(input.myList[i])

\* The runs of a flag sequence: run k starts at the sum of the lengths of the
\* runs before it and has the first run's value when k is odd.
RECURSIVE RunStart(_, _)
RunStart(lens, k) == IF k <= 1 THEN 0 ELSE RunStart(lens, k - 1) + lens[k - 1]

RunValue(first, k) == IF k % 2 = 1 THEN first ELSE ~first

RECURSIVE TrueRunStartsFrom(_, _, _, _)
TrueRunStartsFrom(first, lens, k, least) ==
    IF k > Len(lens) THEN <<>>
    ELSE (IF RunValue(first, k) /\ RunStart(lens, k) >= least
          THEN <<RunStart(lens, k)>> ELSE <<>>)
         \o TrueRunStartsFrom(first, lens, k + 1, least)

\* C2 as stated: the count is the number of True runs and the k-th index is
\* the first position of the k-th True run.
C2_AsStated ==
    Called("count_collisions") =>
        LET starts == TrueRunStartsFrom(input.first, input.lens, 1, 0)
        IN  /\ output.val.CollisionCount = Len(starts)
            /\ output.val.CollisionIndicies = starts

\* C2: the count is the number of True runs that start after position 0 and
\* the k-th index is the first position of the k-th of those runs; a True run
\* that starts the sequence is not counted.
C2_RunsAfterStart ==
    Called("count_collisions") =>
        LET starts == TrueRunStartsFrom(input.first, input.lens, 1, 1)
        IN  /\ output.val.CollisionCount = Len(starts)
            /\ output.val.CollisionIndicies = starts

\* a sequence that starts with a True run and has a later True run
C2_Witness ==
    /\ Called("count_collisions")
    /\ input.first = TRUE
    /\ Len(input.lens) >= 3
    /\ output.val.CollisionCount = 1

\* C3: the indices are exactly the positions i >= 1 with flags[i] True and
\* flags[i-1] False, in ascending order, the count is their number, and
\* between two reported indices there is a False flag.
C3_FalseTrueTransitions ==
    Called("count_collisions") =>
        LET F == input.Collisions
            idx == output.val.CollisionIndicies
            T == {i \in 1..(Len(F) - 1) : F[i + 1] /\ ~F[i]}
        IN  /\ {idx[k] : k \in 1..Len(idx)} = T
            /\ \A k \in 1..(Len(idx) - 1) : idx[k] < idx[k + 1]
            /\ output.val.CollisionCount = Len(idx)
            /\ \A k \in 1..(Len(idx) - 1) :
                   \E j \in (idx[k] + 1)..(idx[k + 1] - 1) : ~F[j + 1]

\* two events, the first a run of more than one True
C3_Witness ==
    /\ Called("count_collisions")
    /\ output.val.CollisionCount = 2
    /\ \E i \in 1..(Len(input.Collisions) - 2) :
           /\ ~input.Collisions[i]
           /\ input.Collisions[i + 1]
           /\ input.Collisions[i + 2]

Exceeds(f) == ~(f.CentralFreq * 2 + f.bandwidth + f.transitionWidth * 2 <= f.SampleFreq)

\* C4: the specification is rejected with the out-of-range error, and nothing
\* is designed, exactly when CentralFreq + bandwidth/2 + transitionWidth is
\* above SampleFreq/2; at or below it, equality included, the edges go to the
\* coefficient design.
C4_RejectsExactlyAboveNyquist ==
    Called("IIR_filter_design") =>
        /\ Exceeds(input) <=> output = Raise("ValueError")
        /\ ~Exceeds(input) <=> output.exc = "none"
        /\ output.exc = "none" =>
               /\ output.val.bandstop[2] <= output.val.over
               /\ output.val.bandstop[2] - output.val.bandpass[2]
                      = 2 * input.transitionWidth

\* a specification that sits exactly on the Nyquist frequency is designed
C4_Witness ==
    /\ Called("IIR_filter_design")
    /\ 2 * input.CentralFreq + input.bandwidth + 2 * input.transitionWidth
           = input.SampleFreq
    /\ input.transitionWidth > 0
    /\ output.exc = "none"

\* C5 as stated: with Nyquist 1,000,000 Hz, centre 999,000 Hz and passband
\* 2,000 Hz, transition 2,000 Hz fails and transition 500 Hz succeeds.
C5_AsStated ==
    /\ (output # NoOutput /\ input = BoundaryCase(2000)) => output = Raise("ValueError")
    /\ (output # NoOutput /\ input = BoundaryCase(500)) => output.exc = "none"

\* C5: in that boundary case transition 2,000 Hz fails and transition 500 Hz
\* fails too (999,000 + 1,000 + 500 is above 1,000,000); transition 0 Hz,
\* which puts the stopband edge on the Nyquist frequency, succeeds.
C5_BoundaryCase ==
    /\ (output # NoOutput /\ input = BoundaryCase(2000)) => output = Raise("ValueError")
    /\ (output # NoOutput /\ input = BoundaryCase(500)) => output = Raise("ValueError")
    /\ (output # NoOutput /\ input = BoundaryCase(0)) => output.exc = "none"

C5_Witness ==
    /\ input = BoundaryCase(500)
    /\ output = Raise("ValueError")

---------------------------------------------------------------------------
(* Claims on the fits of the DataObject *)

AutoCalled == call.op = "get_fit_auto"
Finite(score) == score.k = "fin"
Candidates == 1..Len(call.tried)

\* the loop took every width of the ladder and no exception left it
SearchCompleted ==
    /\ Len(call.tried) = Len(call.ladder)
    /\ \A k \in Candidates : call.tried[k].exc \in {"none", "RuntimeError"}

\* C6: in get_fit_auto a candidate whose score is NaN or infinite is never
\* the selected width: whenever a width is selected its score is finite, and
\* it is selected as soon as one candidate has a finite score.  If the search
\* went through all candidates and none has a finite score, the call ends in
\* an error and returns nothing, the NaN result included.
C6_FailedNeverSelected ==
    AutoCalled =>
        /\ call.bound <=> \E k \in Candidates : Finite(call.tried[k].score)
        /\ call.bound =>
               \E k \in Candidates : /\ call.tried[k].Width = call.BestWidth
                                     /\ Finite(call.tried[k].score)
        /\ call.exc = "none" => call.bound /\ call.ret # NaNResult
        /\ (SearchCompleted /\ \A k \in Candidates : ~Finite(call.tried[k].score)) =>
               /\ call.exc = "UnboundLocalError"
               /\ call.ret = NoResult

\* a search with a NaN candidate, an infinite one and a finite one
C6_Witness ==
    /\ AutoCalled
    /\ call.exc = "none"
    /\ \E i, j, k \in Candidates :
           /\ call.tried[i].score.k = "nan"
           /\ call.tried[j].score.k = "inf"
           /\ Finite(call.tried[k].score)
           /\ call.tried[k].Width = call.BestWidth

\* C7: get_fit_auto selects the width whose score is minimal over all
\* candidates, and what it returns and stores on the object is the result of
\* the fit made again at that width, not that of the last candidate.
C7_ReturnsRerunAtBestWidth ==
    (AutoCalled /\ call.exc = "none") =>
        \E k \in Candidates :
            /\ call.tried[k].Width = call.BestWidth
            /\ \A j \in Candidates : ~Less(call.tried[j].score, call.tried[k].score)
            /\ call.ret = call.tried[k].ret
            /\ TheAttrs = Attrs(call.ret.A, call.ret.Ftrap, call.ret.Gamma)

\* the last candidate that converged, whose fit the object holds when the
\* loop ends, is not the selected one and has another result
C7_Witness ==
    /\ AutoCalled
    /\ call.exc = "none"
    /\ \E j \in Candidates :
           /\ call.tried[j].optimizer = "converged"
           /\ \A k \in (j + 1)..Len(call.tried) : call.tried[k].optimizer # "converged"
           /\ call.tried[j].Width # call.BestWidth
           /\ Finite(call.tried[j].score)
           /\ call.tried[j].ret # call.ret

\* a candidate whose fit did not converge or whose window is not valid: it
\* collapses, has no half-maximum crossing or leaves too few points to fit
FailedCandidate(t) ==
    \/ t.optimizer \in {"RuntimeError", "TypeError", "empty window"}
    \/ t.exc = "none" /\ t.optimizer = "not called"

\* C8 as stated: a candidate whose fit does not converge or whose window is
\* not valid does not end the search: every candidate of the ladder is tried
\* and, if one of them has a finite score, the call returns a result.
C8_AsStated ==
    (AutoCalled /\ \E k \in Candidates : FailedCandidate(call.tried[k])) =>
        /\ Len(call.tried) = Len(call.ladder)
        /\ (\E k \in Candidates : Finite(call.tried[k].score)) => call.exc = "none"

PeakCalled == call.op = "get_fit_from_peak"
lowerIndexOf(c) == closest_index(c.lowerLimit)
upperIndexOf(c) == closest_index(c.upperLimit)

\* the window is one bin or less
Collapsed(c) == lowerIndexOf(c) = upperIndexOf(c)

\* the highest power of the window is first found at or before its lower
\* edge: there is nothing to the left of the peak to cross the half maximum
NoCrossing(c) ==
    /\ lowerIndexOf(c) < upperIndexOf(c)
    /\ IndexOf(PSD, SeqMax(Slice(PSD, lowerIndexOf(c), upperIndexOf(c)))) <= lowerIndexOf(c)

SingleFitCalled == call.op \in {"get_fit", "get_fit_from_peak"}

\* C10 as stated: in get_fit and get_fit_from_peak an optimizer that does
\* not converge gives a warning and the NaN result, and no exception.
C10_AsStated ==
    (SingleFitCalled /\ call.optimizer = "RuntimeError") =>
        /\ call.exc = "none"
        /\ call.ret = NaNResult
        /\ call.warned

\* C10: in get_fit and get_fit_from_peak an optimizer that does not converge
\* ends the call with its RuntimeError: nothing is returned, no warning is
\* given and the fit of the object is the one it had.  The warning and the
\* NaN result are what get_fit_from_peak gives for a TypeError of the
\* optimizer (too few points).
C10_NonConvergencePropagates ==
    /\ (SingleFitCalled /\ call.optimizer = "RuntimeError") =>
           /\ call.exc = "RuntimeError"
           /\ call.ret = NoResult
           /\ ~call.warned
           /\ TheAttrs = call.before
    /\ (PeakCalled /\ call.optimizer = "TypeError") =>
           /\ call.exc = "none"
           /\ call.ret = NaNResult
           /\ call.warned

\* get_fit_from_peak reached the optimizer, which did not converge
C10_Witness ==
    /\ PeakCalled
    /\ call.get_fit
    /\ call.optimizer = "RuntimeError"
    /\ call.exc = "RuntimeError"

---------------------------------------------------------------------------
(* Claims on the spectrum, the physical parameters and the channels *)

\* C11: get_PSD and calc_PSD return frequencies that are strictly increasing
\* and as many as the powers, and frequency and power are reordered
\* together: every (frequency, power) pair of the estimator's output is a
\* pair of the result, at one position, and the result has no other pair.
C11_SortedTogether ==
    (Called("get_PSD") \/ Called("calc_PSD")) =>
        LET f == output.val.freqs
            p == output.val.PSD
            w == input.welch
        IN  /\ output.exc = "none"
            /\ Len(f) = Len(p)
            /\ Len(f) = Len(w.freqs)
            /\ \A k \in 1..(Len(f) - 1) : f[k] < f[k + 1]
            /\ \A i \in 1..Len(w.freqs) :
                   \E k \in 1..Len(f) : f[k] = w.freqs[i] /\ p[k] = w.PSD[i]

\* an estimator output that is not sorted, with powers that differ
C11_Witness ==
    /\ Called("get_PSD")
    /\ Len(input.welch.freqs) >= 3
    /\ input.welch.freqs[1] > input.welch.freqs[2]
    /\ input.welch.PSD[1] # input.welch.PSD[2]
    /\ output.val.PSD # input.welch.PSD


\* C13: what DataObject.extract_parameters returns is fixed by the pressure,
\* its uncertainty and the fitted A and Gamma: with any other trap frequency
\* in self.Ftrap the same call returns the same radius, mass and conversion
\* factor, errors included.
C13_IndependentOfFtrap ==
    Called("DataObject.extract_parameters") =>
        \A f \in FittedValues :
            DataObject_extract_parameters(Attrs(input.A, f, input.Gamma),
                                          input.P_mbar, input.P_Error) = output

C13_Witness ==
    /\ Called("DataObject.extract_parameters")
    /\ output.exc = "none"
    /\ input.Ftrap # input.Gamma

\* C14: the radius is proportional to the pressure and inversely proportional
\* to the damping: with the damping doubled extract_parameters returns half
\* the radius, with the pressure doubled twice the radius.
C14_RadiusScales ==
    Called("extract_parameters") =>
        LET radius == output.val[1][1]
            halved == extract_parameters(input.P_mbar, input.P_Error, input.A.n.v, input.A.std_dev, 2 * input.Gamma.n.v, input.Gamma.std_dev)[1][1]
            doubled == extract_parameters(2 * input.P_mbar, input.P_Error, input.A.n.v, input.A.std_dev, input.Gamma.n.v, input.Gamma.std_dev)[1][1]
        IN  /\ SameQuot(Quot(2 * halved.num, halved.den), radius)
            /\ SameQuot(doubled, Quot(2 * radius.num, radius.den))

C14_Witness ==
    /\ Called("extract_parameters")
    /\ input.Gamma.n.v > 1
    /\ input.P_mbar > 1


\* C12: no operation of the object changes an array that exists when it is
\* called: the samples self.time and self.voltage stay the same arrays with
\* the same contents, and every spectrum made earlier (self.freqs, self.PSD)
\* keeps its contents; get_PSD only binds the object to new arrays.
C12_ArraysImmutable ==
    [][ call' # NoCall =>
          /\ mem'.self.time = mem.self.time
          /\ mem'.self.voltage = mem.self.voltage
          /\ \A id \in DOMAIN mem.heap :
                id \in DOMAIN mem'.heap /\ mem'.heap[id] = mem.heap[id] ]_vars


C12_Witness ==
    /\ call.op = "get_ZXY_data_IFFT"
    /\ call.exc = "none"
    /\ \E k \in 1..call.ret[1].count : content(mem, call.ret[1])[k] = 0
    /\ \A k \in 1..NumSamples : mem.heap[mem.self.voltage][k] > 0


\* the filter gave numbers for every channel
NoNaN(filtered) == \A a \in 1..3 : ~isnan_any(filtered[a])

\* C15 as stated: for a time window, a sub-sampling divisor and either way of
\* applying the filter, get_ZXY_data returns z, x, y and the time axis, four
\* sequences of one length.
C15_AsStated ==
    (/\ call.op = "get_ZXY_data"
     /\ call.filterImplementation \in {"filtfilt", "lfilter"}
     /\ NoNaN(call.filtered))
    => /\ call.exc = "none"
       /\ Len(call.ret) = 4
       /\ \A a \in 1..4 : call.ret[a].count = call.ret[1].count

\* C16 as stated: extract_ZXY_motion refines the three frequencies, filters
\* the signal, stores the channels as self.zVolts, self.xVolts, self.yVolts
\* and returns exactly these three.
C16_AsStated ==
    (/\ call.op = "extract_ZXY_motion"
     /\ call.uncertaintyInFreqs = 2 * BinHz
     /\ NoNaN(call.filtered))
    => /\ call.exc = "none"
       /\ mem.self.zVolts # NoRef
       /\ call.ret = <<mem.self.zVolts, mem.self.xVolts, mem.self.yVolts>>

\* C17 as stated: when the filtered output of a channel holds a NaN,
\* get_ZXY_data fails with the ValueError that asks for a higher
\* FractionOfSampleFreq, and returns nothing.
C17_AsStated ==
    (/\ call.op = "get_ZXY_data"
     /\ call.filterImplementation \in {"filtfilt", "lfilter"}
     /\ ~NoNaN(call.filtered))
    => /\ call.exc = "ValueError"
       /\ call.ret = <<>>

\* the bins of a channel of n samples that lie in the band of the given
\* centre and width, and the bins that the channel returned still holds
InBand(n, centre, width) == {i \in 0..(n - 1) : ~outside(i, n, SampleFreq, centre - width \div 2, centre + width \div 2)}
KeptBins(data) == {i \in 0..(data.count - 1) : content(mem, data)[i + 1] # 0}

\* C18 as stated: of each channel get_ZXY_data_IFFT returns, the bins kept
\* are exactly those within centre - width / 2 and centre + width / 2 for the
\* centre and the width of that channel: zwidth for z, xwidth for x, ywidth
\* for y.
C18_AsStated ==
    (call.op = "get_ZXY_data_IFFT" /\ call.exc = "none")
    => /\ KeptBins(call.ret[1]) = InBand(call.ret[1].count, call.zf, call.zwidth)
       /\ KeptBins(call.ret[2]) = InBand(call.ret[2].count, call.xf, call.xwidth)
       /\ KeptBins(call.ret[3]) = InBand(call.ret[3].count, call.yf, call.ywidth)


\* C19 as stated: find_collisions flags a sample exactly when its value is
\* further from the mean of the sequence than tolerance percent of the
\* mean; at a deviation of at most that it does not flag.
C19_AsStated ==
    Called("find_collisions") =>
        LET S == SeqSum(input.fmd)
            n == Len(input.fmd)
        IN  \A i \in 1..n :
               output.val[i] <=> 100 * Dist(n * input.fmd[i], S) > input.tolerance * Dist(S, 0)


\* C20 as stated: when the limits of get_fit_from_peak map to bins
\* lowerIndex < upperIndex, the peak it locates is a bin of the window, at or
\* after lowerIndex and before upperIndex, and holds the largest power of
\* the window.
C20_AsStated ==
    (PeakCalled /\ lowerIndexOf(call) < upperIndexOf(call)) =>
        LET centralIndex == peak_guess(PSD, call.lowerLimit, call.upperLimit).centralIndex
        IN  /\ lowerIndexOf(call) <= centralIndex
            /\ centralIndex < upperIndexOf(call)
            /\ PSD[centralIndex + 1] = SeqMax(Slice(PSD, lowerIndexOf(call), upperIndexOf(call)))


---------------------------------------------------------------------------
(* Claims on the peak search, the model function and the windows *)

\* C21 as stated: when get_fit_from_peak gets as far as the fit, the left
\* side of the peak is the bin of [lowerIndex, centralIndex) whose power is
\* nearest to min + (max - min) / 2 and the right side the bin of
\* [centralIndex, upperIndex) whose power is nearest to it, so that the left
\* frequency is at most the peak frequency, which is at most the right
\* frequency, and FWHM is not negative.
C21_AsStated ==
    PeakCalled =>
        LET g == peak_guess(PSD, call.lowerLimit, call.upperLimit)
            window == Slice(PSD, g.lowerIndex, g.upperIndex)
            HalfMax2 == 2 * SeqMin(window) + (SeqMax(window) - SeqMin(window))
            left == LeftSideOfPeakIndex(PSD, g.lowerIndex, g.centralIndex, HalfMax2)
            right == RightSideOfPeakIndex(PSD, g.centralIndex, g.upperIndex, HalfMax2)
        IN  g.kind = "get_fit" =>
              /\ g.lowerIndex <= left /\ left < g.centralIndex
              /\ \A j \in g.lowerIndex..(g.centralIndex - 1) :
                    Dist(2 * PSD[left + 1], HalfMax2) <= Dist(2 * PSD[j + 1], HalfMax2)
              /\ g.centralIndex <= right /\ right < g.upperIndex
              /\ \A j \in g.centralIndex..(g.upperIndex - 1) :
                    Dist(2 * PSD[right + 1], HalfMax2) <= Dist(2 * PSD[j + 1], HalfMax2)
              /\ freqs[left + 1] <= freqs[g.centralIndex + 1]
              /\ freqs[g.centralIndex + 1] <= freqs[right + 1]
              /\ g.approx_Gamma4 >= 0


\* the bins of the object's spectrum with a frequency in
\* [approx - bandwidth / 2, approx + bandwidth / 2]
SearchWindow(approx, bandwidth) == {i \in 1..NumBins : 2 * approx - bandwidth <= 2 * mem.heap[mem.self.freqs][i] /\ 2 * mem.heap[mem.self.freqs][i] <= 2 * approx + bandwidth}

\* the array found is one frequency, of a bin of the search window around
\* approx that has the largest power of the window, and is found from approx
\* and the bandwidth alone
OneWindowPeak(found, approx, bandwidth) ==
    /\ found.count = 1
    /\ \E i \in SearchWindow(approx, bandwidth) :
          /\ content(mem, found)[1] = mem.heap[mem.self.freqs][i]
          /\ \A j \in SearchWindow(approx, bandwidth) : mem.heap[mem.self.PSD][j] <= mem.heap[mem.self.PSD][i]
    /\ content(mem, found) = trap_freq(mem, approx, bandwidth).val

\* C22 as stated: get_ZXY_freqs returns three frequencies, for z, x and y in
\* this order; each is one bin of its own search window, with the largest
\* power of that window, and does not depend on the approximate frequencies
\* of the other two.
C22_AsStated ==
    (call.op = "get_ZXY_freqs" /\ call.exc = "none") =>
        /\ Len(call.ret) = 3
        /\ OneWindowPeak(call.ret[1], call.zfreq, call.bandwidth)
        /\ OneWindowPeak(call.ret[2], call.xfreq, call.bandwidth)
        /\ OneWindowPeak(call.ret[3], call.yfreq, call.bandwidth)


\* the call of get_fit got as far as the optimizer
FitReached == call.op = "get_fit" /\ call.optimizer \notin {"several maxima", "empty window"}

\* the bins [first, last) of the window of bandwidth around the frequency f
WindowAround(f, bandwidth) == [first |-> closest_index(f - bandwidth \div 2), last |-> closest_index(f + bandwidth \div 2)]

\* C23: when fit_PSD of get_fit gets as far as the optimizer, it has
\* re-centred the window once: the initial trap frequency is the frequency
\* of the bin that holds the largest power of the window around the bin
\* nearest to the guess, the bins fitted are those from the bin nearest to
\* that frequency minus half the bandwidth up to the bin nearest to it plus
\* half the bandwidth, and the optimizer fails for want of points exactly
\* when that window holds fewer points than parameters.
C23_OneRecentring ==
    FitReached =>
        LET w == fit_PSD_window(PSD, call.WidthOfPeakToFit, call.TrapFreq, DefaultAInitial, 4 * DefaultGammaInitial)
            guessed == WindowAround(take_closest(freqs, call.TrapFreq), call.WidthOfPeakToFit)
        IN  \E b \in guessed.first..(guessed.last - 1) :
                LET centred == WindowAround(freqs[b + 1], call.WidthOfPeakToFit)
                IN  /\ PSD[b + 1] = SeqMax(Slice(PSD, guessed.first, guessed.last))
                    /\ w.p0.ftrap = freqs[b + 1]
                    /\ w.indx_fit_lower = centred.first
                    /\ w.indx_fit_upper = centred.last
                    /\ call.optimizer \in {"TypeError", "ValueError"} <=> centred.last - centred.first < NumParams

\* a fit that converged around a peak that is not the bin nearest to the guess
C23_Witness ==
    /\ FitReached
    /\ call.optimizer = "converged"
    /\ LET guessed == WindowAround(take_closest(freqs, call.TrapFreq), call.WidthOfPeakToFit)
       IN  PSD[closest_index(call.TrapFreq) + 1] # SeqMax(Slice(PSD, guessed.first, guessed.last))


\* C24: the model function of fit_PSD returns the constant 1e9 exactly when
\* one of A, TrapFreq and BigGamma is negative; for parameters none of which
\* is negative it returns, at each frequency w,
\* 10 * log10(A / ((TrapFreq^2 - w^2)^2 + (w * BigGamma)^2)).
C24_PenaltyIffNegative ==
    Called("calc_theory_PSD_curve_fit") =>
        LET negative == input.A < 0 \/ input.TrapFreq < 0 \/ input.BigGamma < 0
            square(x) == x * x
            level(w) == ten_log10(divide(input.A, square(square(input.TrapFreq) - square(w)) + square(w * input.BigGamma)))
        IN  /\ output.exc = "none"
            /\ output.val = scalar(Penalty) <=> negative
            /\ ~negative => /\ ~output.val.scalar
                            /\ Len(output.val.at) = Len(input.freqs)
                            /\ \A k \in 1..Len(input.freqs) : output.val.at[k] = level(input.freqs[k])

\* an evaluation with a negative damping only, answered with the penalty
C24_Witness ==
    /\ Called("calc_theory_PSD_curve_fit")
    /\ input.A > 0 /\ input.TrapFreq > 0 /\ input.BigGamma < 0
    /\ output.val = scalar(Penalty)


\* fit_curvefit was called and _curve_fit returned a covariance matrix
CovarianceReturned ==
    /\ Called("fit_curvefit")
    /\ input.curve_fit.exc = "none"
    /\ input.curve_fit.val.pcov.matrix

DiagonalEntry(i) == input.curve_fit.val.pcov.diagonal[i]

\* C25 as stated: the error of each parameter is the square root of its
\* entry on the diagonal of the covariance matrix, and nan if that entry is
\* not finite, whatever the other entries are; no exception.
C25_AsStated ==
    CovarianceReturned =>
        /\ output.exc = "none"
        /\ \A i \in 1..NumParams :
               /\ (DiagonalEntry(i).k = "fin" /\ DiagonalEntry(i).num >= 0) =>
                      output.val.perr_curvefit[i] = [k |-> "sqrt", num |-> DiagonalEntry(i).num, den |-> DiagonalEntry(i).den]
               /\ DiagonalEntry(i).k # "fin" => output.val.perr_curvefit[i] = NotANumber

\* C25: the error of each parameter is the square root of the magnitude of
\* its entry on the diagonal of the covariance matrix: an infinite entry
\* gives an infinite error and a nan entry a nan error, for that parameter
\* only, whatever the other entries are; no exception.
C25_ErrorPerParameter ==
    CovarianceReturned =>
        /\ output.exc = "none"
        /\ output.val.pfit_curvefit = input.curve_fit.val.pfit
        /\ \A i \in 1..NumParams :
               /\ DiagonalEntry(i).k = "fin" =>
                      output.val.perr_curvefit[i] =
                          [k |-> "sqrt",
                           num |-> IF DiagonalEntry(i).num < 0 THEN 0 - DiagonalEntry(i).num ELSE DiagonalEntry(i).num,
                           den |-> DiagonalEntry(i).den]
               /\ DiagonalEntry(i).k = "inf" => output.val.perr_curvefit[i] = PlusInf
               /\ DiagonalEntry(i).k = "nan" => output.val.perr_curvefit[i] = NotANumber

\* an infinite entry, a nan entry and a finite one on the same diagonal
C25_Witness ==
    /\ CovarianceReturned
    /\ DiagonalEntry(1) = PlusInf
    /\ DiagonalEntry(2) = NotANumber
    /\ DiagonalEntry(3) = Quotient(1, 1)
    /\ output.val.perr_curvefit = <<PlusInf, NotANumber, [k |-> "sqrt", num |-> 1, den |-> 1]>>


\* the sum of s[first], ..., s[last]
RECURSIVE SumOver(_, _, _)
SumOver(s, first, last) == IF last < first THEN 0 ELSE s[last] + SumOver(s, first, last - 1)

\* C26: for 1 <= n <= len(array), moving_average(array, n) has
\* len(array) - n + 1 elements and its k-th element is the mean of the n
\* elements of array from the k-th on; with n = 1 it holds the values of
\* array.
C26_WindowMeans ==
    (Called("moving_average") /\ input.n <= Len(input.array)) =>
        /\ output.exc = "none"
        /\ Len(output.val) = Len(input.array) - input.n + 1
        /\ \A k \in 1..Len(output.val) :
               /\ output.val[k].k = "fin"
               /\ output.val[k].den = input.n
               /\ output.val[k].num = SumOver(input.array, k, k + input.n - 1)
        /\ input.n = 1 => \A k \in 1..Len(input.array) : output.val[k] = Quotient(input.array[k], 1)

\* a two-point average of three values that differ
C26_Witness ==
    /\ Called("moving_average")
    /\ input.n = 2
    /\ input.array = <<1, 2, 4>>
    /\ output.val = <<Quotient(3, 2), Quotient(6, 2)>>


\* MaxWidth - MinWidth is a multiple of WidthIntervals, and not negative
WholeSteps == call.MaxWidth >= call.MinWidth /\ (call.MaxWidth - call.MinWidth) % call.WidthIntervals = 0

\* C27: get_fit_auto takes the candidate widths in descending order, from
\* MaxWidth on in steps of WidthIntervals, one after the other until an
\* exception leaves the loop; when MaxWidth - MinWidth is a multiple of
\* WidthIntervals the candidates are MaxWidth, MaxWidth - WidthIntervals,
\* ..., MinWidth: MinWidth is the last of them and none is smaller.
C27_LadderDownToMinWidth ==
    AutoCalled =>
        /\ Len(call.tried) <= Len(call.ladder)
        /\ \A k \in Candidates : call.tried[k].Width = call.MaxWidth - (k - 1) * call.WidthIntervals
        /\ \A k \in 1..Len(call.ladder) : call.ladder[k] = call.MaxWidth - (k - 1) * call.WidthIntervals
        /\ \A k \in 1..(Len(call.tried) - 1) : call.tried[k].exc \in {"none", "RuntimeError"}
        /\ Len(call.tried) < Len(call.ladder) => call.tried[Len(call.tried)].exc \notin {"none", "RuntimeError"}
        /\ WholeSteps =>
               /\ Len(call.ladder) = (call.MaxWidth - call.MinWidth) \div call.WidthIntervals + 1
               /\ call.ladder[Len(call.ladder)] = call.MinWidth
               /\ \A k \in 1..Len(call.ladder) : call.ladder[k] >= call.MinWidth

\* a search over three widths that took them all, MinWidth last
C27_Witness ==
    /\ AutoCalled
    /\ WholeSteps
    /\ Len(call.tried) = 3
    /\ call.tried[1].Width = call.MaxWidth
    /\ call.tried[3].Width = call.MinWidth
    /\ call.exc = "none"


\* the finite score of candidate i is smaller than that of candidate j
Below(i, j) == call.tried[i].score.num * call.tried[j].score.den < call.tried[j].score.num * call.tried[i].score.den

\* C28: the width get_fit_auto selects is the first candidate, hence the
\* widest, among those with the smallest score: every candidate before it
\* has a strictly larger score or none that compares, and no candidate has a
\* smaller one.  A later candidate with the same score does not replace it.
C28_FirstOfEqualScores ==
    (AutoCalled /\ call.bound) =>
        \E k \in Candidates :
            /\ call.tried[k].Width = call.BestWidth
            /\ Finite(call.tried[k].score)
            /\ \A j \in Candidates : Finite(call.tried[j].score) => ~Below(j, k)
            /\ \A j \in 1..(k - 1) : Finite(call.tried[j].score) => Below(k, j)
            /\ \A j \in Candidates : call.tried[j].Width > call.BestWidth <=> j < k

\* two candidates with the smallest score, the wider one selected
C28_Witness ==
    /\ AutoCalled
    /\ call.exc = "none"
    /\ \E i, j \in Candidates :
           /\ i < j
           /\ call.tried[i].Width = call.BestWidth
           /\ Finite(call.tried[i].score)
           /\ call.tried[j].score = call.tried[i].score
           /\ \A k \in Candidates : Finite(call.tried[k].score) => ~Below(k, i)


\* the step is a call of get_fit_from_peak that returns the NaN result
ReturnsNaNResult ==
    /\ call = NoCall
    /\ call'.op = "get_fit_from_peak"
    /\ call'.exc = "none"
    /\ call'.ret = NaNResult

\* the step is a call of extract_parameters that returns
ParametersExtracted ==
    /\ call = NoCall
    /\ call'.op = "extract_parameters"
    /\ call'.exc = "none"

\* C29: a call of get_fit_from_peak that returns the NaN result leaves the
\* A, Ftrap and Gamma of the object as they were before the call, and a
\* call of extract_parameters computes from the A and Gamma the object holds:
\* after a NaN result it uses the last fit that was made.
C29_SentinelLeavesFit ==
    [][/\ ReturnsNaNResult => (A' = A /\ Ftrap' = Ftrap /\ Gamma' = Gamma)
       /\ ParametersExtracted =>
              /\ A # Unset /\ A # NaNval
              /\ call'.ret = DataObject_extract_parameters(Attrs(A, Ftrap, Gamma), MaxPressure, 1).val]_vars

\* the NaN result returned by an object that holds a fit
C29_Witness ==
    /\ call.op = "get_fit_from_peak"
    /\ call.exc = "none"
    /\ call.ret = NaNResult
    /\ A # Unset /\ A # NaNval


\* the samples of the time window of the call: StartIndex, EndIndex and the
\* sub-sampling divisor, 1 for get_ZXY_data_IFFT
WindowStart == StartIndex_of(mem.heap[mem.self.time], call.timeStart)
WindowEnd == EndIndex_of(mem.heap[mem.self.time], call.timeEnd)
Divisor == IF call.op = "get_ZXY_data" THEN call.FractionOfSampleFreq ELSE 1

\* the call returned the channels and the time axis of the samples at
\* StartIndex, StartIndex + F, ... below EndIndex
WindowReturned ==
    /\ call.exc = "none"
    /\ Len(call.ret) = 4
    /\ \A a \in 1..4 : call.ret[a].count = (WindowEnd - WindowStart + Divisor - 1) \div Divisor
    /\ \A k \in 1..call.ret[4].count :
           /\ content(mem, call.ret[4])[k] = mem.heap[mem.self.time][WindowStart + (k - 1) * Divisor + 1]
           /\ WindowStart + (k - 1) * Divisor < WindowEnd

\* C30 as stated: get_ZXY_data and get_ZXY_data_IFFT return, for a window
\* with StartIndex < EndIndex, the samples at StartIndex, StartIndex + F, ...
\* below EndIndex, ceil((EndIndex - StartIndex) / F) of them; the sample at
\* EndIndex is not among them.
C30_AsStated ==
    (/\ call.op \in {"get_ZXY_data", "get_ZXY_data_IFFT"}
     /\ call.op = "get_ZXY_data" => call.filterImplementation \in {"filtfilt", "lfilter"} /\ NoNaN(call.filtered)
     /\ WindowStart < WindowEnd)
    => WindowReturned

====
